---------------------------- MODULE Spec2Model ----------------------------
(***************************************************************************)
(* Verification model of windows-rust-counters: the RTSM codec             *)
(* (signal-flow/src/rtsm.rs), the Morse codec (morse-stream/src/lib.rs)    *)
(* and the signal-flow combinators they are composed with.                 *)
(*                                                                         *)
(* Option<T> is modelled as a sequence: None is << >>, Some(x) is <<x>>.   *)
(* Signal is BOOLEAN: ON is TRUE and OFF is FALSE.                         *)
(***************************************************************************)
EXTENDS Integers, Sequences, FiniteSets, TLC

VARIABLES
    ranges,          \* the RtsmRanges the RTSM encoders and decoders were built from
    \* ---- RTSM transmitter, shared cell and sampling receiver
    tx,              \* RtsmTx: off.value, on.value, current
    CURRENT_SIGNAL,  \* the Mutex<u32> the worker's CustomTx writes
    rx_last,         \* RtsmRx.rtsm.last of the sampling receiver
    sent,            \* history: bits given to RtsmTx::send, in order
    values,          \* history: integers RtsmTx emitted, in order
    decoded,         \* history: bits RtsmRx::recv returned, in order
    prev_sample,     \* history: the sample before the last one
    last_sample,     \* history: the last sample [value, n, out]
    skipped,         \* history: a written value was overwritten unsampled
    stale,           \* history: the cell was sampled before the first write
    \* ---- RtsmRx over an IteratorRx of arbitrary integers
    rtsm_last,       \* RtsmRx.rtsm.last
    inner_done,      \* the inner Rx has returned Ok(None)
    rx_out,          \* history: what the last RtsmRx::recv returned
    prev_ev,         \* history: the decode call before the last one
    last_ev,         \* history: the last decode call [value, before, out, after]
    \* ---- RtsmMultiRx over an IteratorRx of vectors of integers
    multi_rtsm,      \* RtsmMultiRx.rtsm: the last of each RtsmRxCore
    multi_done,      \* the inner Rx has returned Ok(None)
    multi_out,       \* history: what the last RtsmMultiRx::recv returned
    last_mv,         \* history: the last vector read [vec, before, out, after, skips]
    \* ---- RtsmRanges::new on one integer type
    ty,              \* the integer type T: "u8" or "i8"
    build,           \* "debug" (overflow checks on) or "release" (wrapping)
    arg_off,         \* the off range given to RtsmRanges::new
    arg_on,          \* the on range given to RtsmRanges::new
    new_result,      \* None before the call; then "Ok", "Err" or "panic"
    \* ---- Morse EncoderTx into a VecCollectorTx, DecoderRx over an IteratorRx
    str,             \* history: the characters sent to EncoderTx, in order
    enc,             \* EncoderTx: pause_duration, pause_written
    buffer,          \* VecCollectorTx.buffer: the units the decoder's IteratorRx reads
    closed,          \* the encoder was dropped: the buffer is complete
    rd,              \* units of the buffer the IteratorRx has yielded
    current_group,   \* DecoderRx.current_group
    current_letter,  \* DecoderRx.current_letter
    chars,           \* history: the characters DecoderRx::recv returned
    dec_errs,        \* history: the errors DecoderRx::recv returned
    dec_state,       \* "running", "ended" (recv returned Ok(None)) or "panicked"
    dec_ev,          \* history: the last loop iteration of read_char
    \* ---- one provider worker: its pipeline, its token and its column of ObjectData
    w_kind,          \* "WorkerBuilder" (app.rs) or "worker_thread_main" (lib.rs)
    w_n,             \* instances.len(): the chunk size
    cancellation_token, \* the worker's Arc<AtomicBool>
    w_pc,            \* "provide", "send", "units", "exited" or "panicked"
    w_chars,         \* characters of string.chars().chain(" ") still to send
    w_units,         \* units of the character being sent that are still to go down
    w_enc,           \* EncoderTx: pause_duration, pause_written
    w_chunk,         \* ChunksTx.buffer
    rtsm_coders,     \* the RtsmTx of each instance (one RtsmTx in worker_thread_main)
    column,          \* the counter's value per instance, as stored by the sink
    cols,            \* history: the column stored at each tick
    bits,            \* history: the units the encoder sent down, in order
    w_ev,            \* history: the last send that reached CancellableTx
    \* ---- the consumer's decoder of that counter
    rx_cores,        \* RtsmMultiRx.rtsm: one RtsmRxCore state per channel
    rx_bits,         \* the signals that came out of flatten(), in order
    polled,          \* the current column has been read by a poll
    missed,          \* history: some tick was overwritten before any poll read it
    rx_poll,         \* history: the vector of the last poll, of the one before, the result
    \* ---- App: its workers, the SharedObjectData, the provider's polls, App::stop
    running,         \* App.running
    workers,         \* App.workers: the counters whose WorkerThread is in the list
    tokens,          \* the cancellation token of each worker
    t_pc,            \* each worker thread: "idle", "update", "exited" or "panicked"
    t_new,           \* each worker's ObjectData inside update(): the clone being modified
    t_i,             \* each worker's position in the loop over its instances
    ticks,           \* history: the number of updates each worker completed
    mutex,           \* SharedObjectData.inner: the thread that holds the lock, if any
    data,            \* SharedObjectData.inner: the ObjectData
    wrapped,         \* the provider is inside a CachingPerfProvider
    p_pc,            \* the poll: "idle" or "serialize"
    p_instances,     \* MorseCountersProvider.instances
    cache,           \* MorseCountersProvider.cache
    p_out,           \* the blocks the current poll has written: instance, counter, value
    at_poll,         \* history: the ObjectData when the current poll called collect
    s_pc,            \* App::stop: "idle", "cancel", "join", "joining" or "done"
    s_k,             \* App::stop: position in the loop that cancels
    join_log,        \* history: each join that returned
    \* ---- the input queue of a consumer decoder worker
    rx_queue,        \* the sample vectors sent and not yet received
    rx_sent,         \* history: every sample vector sent, in order
    rx_stream,       \* the bit stream the provider's worker encodes
    rx_tick,         \* the ticks of that stream sent so far
    \* ---- one Rx combinator over an inner Rx, or a ChunksTx over a sink
    k_kind,          \* which combinator
    k_src,           \* the items the inner Rx still has; Ok(None) after them
    k_state,         \* the combinator's own field: last, error or buffer
    k_polls,         \* history: the number of calls of the inner recv
    k_log,           \* history: what each call returned or forwarded
    k_size,          \* the chunk size of a ChunksTx
    k_in,            \* history: what the inner recv returned, or the items sent
    \* ---- the serializer of win-high and the Collect entry point
    c_objects,       \* the provider's object templates
    c_first,         \* what first_counter returns: Some(base) or None (it fails)
    c_buffer,        \* the caller's buffer, byte by byte; -1 is a byte never written
    c_pc,            \* "idle", "object", "collected" or "parsed"
    c_result,        \* what collect_object or MyCollectProc returned
    c_query,         \* the query string of the call
    c_out,           \* lppData (as an offset), lpcbTotalBytes and lpNumObjectTypes
    c_parsed,        \* what perf_object_type made of the buffer
    \* ---- the NumInstances value of the registry
    n_reg,           \* the registry value: None (no key or value) or its bytes
    n_pc,            \* "idle", "reg" (reg.rs and App::start) or "lib" (lib.rs)
    n_num,           \* what get_number_of_instances returned
    n_instances,     \* the instances made from it
    \* ---- three InstanceId values and their comparisons
    i_ids,           \* the three ids
    i_pc,            \* "idle" or "compared"
    i_cmp,           \* cmp of every two of them
    i_eq,            \* eq of every two of them
    i_hash,          \* what each id feeds into the Hasher
    \* ---- the HKey_Safe wrappers of one registry handle
    h_alive,         \* the wrappers alive
    h_made,          \* the wrappers made so far
    h_strong,        \* the strong count of the Rc
    h_handle,        \* the handle at the OS: "none", "open" or "closed"
    h_closes,        \* history: the result of each RegCloseKey call
    \* ---- the counter block of a list of counter templates
    l_sizes,         \* the CounterSize of each template
    l_pc,            \* "idle", "laid" (layout made) or "block" (block in the buffer)
    l_block,         \* the CountersBlockTemplate of layout_of_counters
    l_owner,         \* the block's bytes: who wrote each (0 the length, k counter k, -1 nobody)
    l_next,          \* the counter to write next
    l_faults,        \* history: writes that failed or wrote over another's bytes
    \* ---- the RtsmTx of one instance of a WorkerBuilder worker
    o_i,             \* the ordinal of the instance, from 0
    o_tx,            \* its RtsmTx
    o_signal,        \* the last signal sent through it, if any
    o_value          \* the integer written for that signal

rtsmVars == <<tx, CURRENT_SIGNAL, rx_last, sent, values, decoded,
              prev_sample, last_sample, skipped, stale>>

rxVars == <<rtsm_last, inner_done, rx_out, prev_ev, last_ev>>

multiVars == <<multi_rtsm, multi_done, multi_out, last_mv>>

newVars == <<ty, build, arg_off, arg_on, new_result>>

encVars == <<str, enc, buffer, closed>>

decVars == <<rd, current_group, current_letter, chars, dec_errs, dec_state, dec_ev>>

morseVars == <<encVars, decVars>>

workerVars == <<w_kind, w_n, cancellation_token, w_pc, w_chars, w_units, w_enc,
                w_chunk, rtsm_coders, column, cols, bits, w_ev>>

consumerVars == <<rx_cores, rx_bits, polled, missed, rx_poll>>

appVars == <<running, workers, tokens, t_pc, t_new, t_i, ticks, mutex, data,
             wrapped, p_pc, p_instances, cache, p_out, at_poll, s_pc, s_k, join_log>>

queueVars == <<rx_queue, rx_sent, rx_stream, rx_tick>>

combVars == <<k_kind, k_src, k_state, k_polls, k_log, k_size, k_in>>

perfVars == <<c_objects, c_first, c_buffer, c_pc, c_result, c_query, c_out, c_parsed>>

regVars == <<n_reg, n_pc, n_num, n_instances>>

idVars == <<i_ids, i_pc, i_cmp, i_eq, i_hash>>

hkeyVars == <<h_alive, h_made, h_strong, h_handle, h_closes>>

layoutVars == <<l_sizes, l_pc, l_block, l_owner, l_next, l_faults>>

coderVars == <<o_i, o_tx, o_signal, o_value>>

lateVars == <<regVars, idVars, hkeyVars, layoutVars, coderVars>>

extraVars == <<queueVars, combVars, perfVars, lateVars>>

providerVars == <<workerVars, consumerVars, appVars, extraVars>>

vars == <<ranges, rtsmVars, rxVars, multiVars, newVars, morseVars, providerVars>>

----------------------------------------------------------------------------
(* Bounds of the model *)

\* Longest bit sequence given to one RtsmTx.
MaxBits == 4
\* RTSM range bounds are drawn from 0..MaxVal.
MaxVal == 5
\* Most re-reads of one value that one recv call of RtsmRx skips.
MaxRepeat == 2
\* Most channels (integers per vector) given to RtsmMultiRx.
MaxChan == 2
\* Longest string given to the Morse EncoderTx.
MaxChars == 4
\* Longest sequence of signal units given directly to the Morse DecoderRx.
MaxUnits == 8
\* Longest OFF run decoded: past the saturation of SignalGroup.duration.
MaxOff == 260

----------------------------------------------------------------------------
(* Option and Signal *)

None == << >>
Some(x) == <<x>>
IsSome(o) == Len(o) = 1
Unwrap(o) == o[1]

ON == TRUE
OFF == FALSE

\* Range<T>: half-open start..end
Range(s, e) == [start |-> s, end |-> e]
contains(range, v) == range.start <= v /\ v < range.end

----------------------------------------------------------------------------
(* SignalValue, instantiated here for u8: wrapping_add(one()), wrapping_next *)

U8_MAX == 255

wrapping_add_one(v) == IF v = U8_MAX THEN 0 ELSE v + 1

wrapping_next_nowrap(v, range) == wrapping_add_one(v)

wrapping_next(v, range) ==
    LET next == wrapping_add_one(v)
    IN  IF ~contains(range, next) THEN range.start ELSE next

I8_MIN == -128
I8_MAX == 127

T_MIN(t) == IF t = "u8" THEN 0 ELSE I8_MIN
T_MAX(t) == IF t = "u8" THEN U8_MAX ELSE I8_MAX

\* a - b in type t: <<"ok", d>>, or <<"panic">> when the subtraction
\* overflows in a build with overflow checks; without them it wraps.
Sub(t, b, x, y) ==
    LET d == x - y
    IN  IF T_MIN(t) <= d /\ d <= T_MAX(t) THEN <<"ok", d>>
        ELSE IF b = "debug" THEN <<"panic">>
        ELSE <<"ok", ((d - T_MIN(t)) % 256) + T_MIN(t)>>

\* ranges_are_valid, with the short-circuit order of its && chain:
\* "true", "false" or "panic".
ranges_are_valid(t, b, r1, r2) ==
    IF ~(r1.start < r1.end /\ r2.start < r2.end) THEN "false"
    ELSE LET d1 == Sub(t, b, r1.end, r1.start)
         IN  IF d1[1] = "panic" THEN "panic"
             ELSE IF ~(d1[2] > 1) THEN "false"
             ELSE LET d2 == Sub(t, b, r2.end, r2.start)
                  IN  IF d2[1] = "panic" THEN "panic"
                      ELSE IF ~(d2[2] > 1) THEN "false"
                      ELSE IF (r1.end <= r2.start) # (r2.end <= r1.start)
                           THEN "true" ELSE "false"

\* RtsmRanges::new: "Ok", "Err" or "panic".
RtsmRanges_new(t, b, off, on) ==
    LET v == ranges_are_valid(t, b, off, on)
    IN  IF v = "true" THEN "Ok" ELSE IF v = "false" THEN "Err" ELSE "panic"

AllRanges == { Range(s, e) : s \in 0..MaxVal, e \in 0..MaxVal }

\* The pairs for which RtsmRanges::new returns Ok, plus the pair of the example.
RtsmRangesNew ==
    { [off |-> a, on |-> b] : a \in AllRanges, b \in AllRanges }

ValidRanges ==
    { r \in RtsmRangesNew : RtsmRanges_new("u8", "release", r.off, r.on) = "Ok" }
    \cup { [off |-> Range(10, 40), on |-> Range(60, 90)] }

----------------------------------------------------------------------------
(* RtsmTx *)

\* RtsmTx::new: both RangeValue start at range.start, current is None.
RtsmTx_new(r) == [off |-> r.off.start, on |-> r.on.start, current |-> None]

\* The cursor of the range the signal belongs to, after the optional increment.
increment_always(t, r, signal) ==
    IF signal = OFF THEN wrapping_next(t.off, r.off) ELSE wrapping_next(t.on, r.on)

increment_never(t, r, signal) == IF signal = OFF THEN t.off ELSE t.on

increment_range_if_needed(t, r, signal) ==
    LET value == IF signal = OFF THEN t.off ELSE t.on
        range == IF signal = OFF THEN r.off ELSE r.on
    IN  IF IsSome(t.current) /\ Unwrap(t.current) = signal
        THEN wrapping_next(value, range)
        ELSE value

\* RtsmTx::encode: returns [tx |-> new state, value |-> emitted integer]
encode(t, r, signal) ==
    LET value == increment_range_if_needed(t, r, signal)
    IN  [tx    |-> [off     |-> IF signal = OFF THEN value ELSE t.off,
                    on      |-> IF signal = ON THEN value ELSE t.on,
                    current |-> Some(signal)],
         value |-> value]

----------------------------------------------------------------------------
(* RtsmRxCore *)

\* signal_for_value: Ok(OFF) / Ok(ON) / Err(())
signal_for_value(r, value) ==
    IF contains(r.off, value) THEN Some(OFF)
    ELSE IF contains(r.on, value) THEN Some(ON)
    ELSE None

\* RtsmRxCore::decode: [last |-> new last, out |-> result]; the result is
\* <<"silent">> for Ok(None), <<"bit", s>> for Ok(Some(s)) and
\* <<"err", v>> for Err(DecodeError(v)).
decode_no_dedup(last, r, value) ==
    LET s == signal_for_value(r, value)
    IN  IF IsSome(s)
        THEN [last |-> Some(value), out |-> <<"bit", Unwrap(s)>>]
        ELSE [last |-> None, out |-> <<"err", value>>]

decode_keep_last(last, r, value) ==
    IF IsSome(last) /\ value = Unwrap(last)
    THEN [last |-> last, out |-> <<"silent">>]
    ELSE LET s == signal_for_value(r, value)
         IN  IF IsSome(s)
             THEN [last |-> Some(value), out |-> <<"bit", Unwrap(s)>>]
             ELSE [last |-> last, out |-> <<"err", value>>]

decode(last, r, value) ==
    IF IsSome(last) /\ value = Unwrap(last)
    THEN [last |-> last, out |-> <<"silent">>]
    ELSE LET s == signal_for_value(r, value)
         IN  IF IsSome(s)
             THEN [last |-> Some(value), out |-> <<"bit", Unwrap(s)>>]
             ELSE [last |-> None, out |-> <<"err", value>>]

----------------------------------------------------------------------------
(* The RTSM example: a worker thread sends bits through RtsmTx into        *)
(* CURRENT_SIGNAL; the main thread samples CURRENT_SIGNAL at its own rate  *)
(* through RtsmRx.                                                         *)

\* The variables of the parts a specification does not run keep these values.
RtsmIdle ==
    /\ tx = None
    /\ CURRENT_SIGNAL = 0
    /\ rx_last = None
    /\ sent = << >>
    /\ values = << >>
    /\ decoded = << >>
    /\ prev_sample = None
    /\ last_sample = None
    /\ skipped = FALSE
    /\ stale = FALSE

RxIdle ==
    /\ rtsm_last = None
    /\ inner_done = FALSE
    /\ rx_out = None
    /\ prev_ev = None
    /\ last_ev = None

MultiIdle ==
    /\ multi_rtsm = << >>
    /\ multi_done = FALSE
    /\ multi_out = None
    /\ last_mv = None

NewIdle ==
    /\ ty = "u8"
    /\ build = "release"
    /\ arg_off = Range(0, 0)
    /\ arg_on = Range(0, 0)
    /\ new_result = None

MorseIdle ==
    /\ str = << >>
    /\ enc = None
    /\ buffer = << >>
    /\ closed = FALSE
    /\ rd = 0
    /\ current_group = None
    /\ current_letter = << >>
    /\ chars = << >>
    /\ dec_errs = << >>
    /\ dec_state = "running"
    /\ dec_ev = None

WorkerIdle ==
    /\ w_kind = "WorkerBuilder"
    /\ w_n = 1
    /\ cancellation_token = FALSE
    /\ w_pc = "provide"
    /\ w_chars = << >>
    /\ w_units = << >>
    /\ w_enc = None
    /\ w_chunk = << >>
    /\ rtsm_coders = << >>
    /\ column = << >>
    /\ cols = << >>
    /\ bits = << >>
    /\ w_ev = None

ConsumerIdle ==
    /\ rx_cores = << >>
    /\ rx_bits = << >>
    /\ polled = FALSE
    /\ missed = FALSE
    /\ rx_poll = None

AppIdle ==
    /\ running = FALSE
    /\ workers = << >>
    /\ tokens = << >>
    /\ t_pc = << >>
    /\ t_new = << >>
    /\ t_i = << >>
    /\ ticks = << >>
    /\ mutex = None
    /\ data = << >>
    /\ wrapped = FALSE
    /\ p_pc = "idle"
    /\ p_instances = None
    /\ cache = << >>
    /\ p_out = << >>
    /\ at_poll = << >>
    /\ s_pc = "idle"
    /\ s_k = 0
    /\ join_log = << >>

QueueIdle ==
    /\ rx_queue = << >>
    /\ rx_sent = << >>
    /\ rx_stream = << >>
    /\ rx_tick = 0

CombIdle ==
    /\ k_kind = "none"
    /\ k_src = << >>
    /\ k_state = None
    /\ k_polls = 0
    /\ k_log = << >>
    /\ k_size = 0
    /\ k_in = << >>

PerfIdle ==
    /\ c_objects = << >>
    /\ c_first = None
    /\ c_buffer = << >>
    /\ c_pc = "idle"
    /\ c_result = None
    /\ c_query = << >>
    /\ c_out = None
    /\ c_parsed = None

RegIdle ==
    /\ n_reg = None
    /\ n_pc = "idle"
    /\ n_num = None
    /\ n_instances = << >>

IdIdle ==
    /\ i_ids = << >>
    /\ i_pc = "idle"
    /\ i_cmp = << >>
    /\ i_eq = << >>
    /\ i_hash = << >>

HKeyIdle ==
    /\ h_alive = {}
    /\ h_made = 0
    /\ h_strong = 0
    /\ h_handle = "none"
    /\ h_closes = << >>

LayoutIdle ==
    /\ l_sizes = << >>
    /\ l_pc = "idle"
    /\ l_block = None
    /\ l_owner = << >>
    /\ l_next = 0
    /\ l_faults = {}

CoderIdle ==
    /\ o_i = 0
    /\ o_tx = None
    /\ o_signal = None
    /\ o_value = None

LateIdle == RegIdle /\ IdIdle /\ HKeyIdle /\ LayoutIdle /\ CoderIdle

ExtraIdle == QueueIdle /\ CombIdle /\ PerfIdle /\ LateIdle

ProviderIdle == WorkerIdle /\ ConsumerIdle /\ AppIdle /\ ExtraIdle

notRtsm == <<rxVars, multiVars, newVars, morseVars, providerVars>>
notRx == <<rtsmVars, multiVars, newVars, morseVars, providerVars>>
notMulti == <<rtsmVars, rxVars, newVars, morseVars, providerVars>>
notNew == <<ranges, rtsmVars, rxVars, multiVars, morseVars, providerVars>>
notMorse == <<ranges, rtsmVars, rxVars, multiVars, newVars, providerVars>>
notWorker == <<ranges, rtsmVars, rxVars, multiVars, newVars, morseVars, appVars, extraVars>>
notApp == <<ranges, rtsmVars, rxVars, multiVars, newVars, morseVars, workerVars, consumerVars,
            extraVars>>
notQueue == <<ranges, rtsmVars, rxVars, multiVars, newVars, str, enc, workerVars,
              rx_bits, polled, missed, rx_poll, appVars, combVars, perfVars, lateVars>>
notComb == <<ranges, rtsmVars, rxVars, multiVars, newVars, morseVars, workerVars,
             consumerVars, appVars, queueVars, perfVars, lateVars>>
notPerf == <<ranges, rtsmVars, rxVars, multiVars, newVars, morseVars, workerVars,
             consumerVars, appVars, queueVars, combVars, lateVars>>
notLate == <<ranges, rtsmVars, rxVars, multiVars, newVars, morseVars, workerVars,
             consumerVars, appVars, queueVars, combVars, perfVars>>
notReg == <<notLate, idVars, hkeyVars, layoutVars, coderVars>>
notId == <<notLate, regVars, hkeyVars, layoutVars, coderVars>>
notHKey == <<notLate, regVars, idVars, layoutVars, coderVars>>
notLayout == <<notLate, regVars, idVars, hkeyVars, coderVars>>
notCoder == <<notLate, regVars, idVars, hkeyVars, layoutVars>>

RtsmInit ==
    /\ ProviderIdle
    /\ MorseIdle
    /\ NewIdle
    /\ RxIdle
    /\ MultiIdle
    /\ ranges \in ValidRanges
    /\ tx = RtsmTx_new(ranges)
    /\ CURRENT_SIGNAL = 0
    /\ rx_last = None
    /\ sent = << >>
    /\ values = << >>
    /\ decoded = << >>
    /\ prev_sample = None
    /\ last_sample = None
    /\ skipped = FALSE
    /\ stale = FALSE

\* Number of values written since the last sample.
Fresh == Len(sent) - (IF IsSome(last_sample) THEN Unwrap(last_sample).n ELSE 0)

\* RtsmTx::send of one bit, down to the CustomTx that stores the value.
Send(signal) ==
    /\ Len(sent) < MaxBits
    /\ LET e == encode(tx, ranges, signal)
       IN  /\ tx' = e.tx
           /\ CURRENT_SIGNAL' = e.value
           /\ values' = Append(values, e.value)
    /\ sent' = Append(sent, signal)
    /\ skipped' = (skipped \/ (Len(sent) > 0 /\ Fresh >= 1))
    /\ UNCHANGED <<ranges, rx_last, decoded, prev_sample, last_sample, stale>>
    /\ UNCHANGED notRtsm

\* One iteration of RtsmRx::recv over the sampling IteratorRx: read the cell,
\* decode it; a silent result keeps the loop going, a bit or an error returns.
Sample ==
    LET d == decode(rx_last, ranges, CURRENT_SIGNAL)
    IN  /\ rx_last' = d.last
        /\ decoded' = IF d.out[1] = "bit" THEN Append(decoded, d.out[2]) ELSE decoded
        /\ prev_sample' = last_sample
        /\ last_sample' = Some([value |-> CURRENT_SIGNAL, n |-> Len(sent), out |-> d.out])
        /\ stale' = (stale \/ Len(sent) = 0)
        /\ UNCHANGED <<ranges, tx, CURRENT_SIGNAL, sent, values, skipped>>
        /\ UNCHANGED notRtsm

RtsmNext ==
    \/ \E signal \in BOOLEAN : Send(signal)
    \/ Sample

Spec == RtsmInit /\ [][RtsmNext]_vars

----------------------------------------------------------------------------
(* Claims about the RTSM example (specification Spec) *)

SampleN(o) == IF IsSome(o) THEN Unwrap(o).n ELSE 0

\* Two consecutive samples, the first of which read an emitted value.
TwoSamples ==
    /\ IsSome(prev_sample)
    /\ IsSome(last_sample)
    /\ Unwrap(prev_sample).n >= 1

SamplesDiffer ==
    /\ Unwrap(prev_sample).value # Unwrap(last_sample).value
    /\ Unwrap(last_sample).out[1] # "silent"

C2_RoundTrip ==
    (~skipped /\ ~stale) => decoded = SubSeq(sent, 1, SampleN(last_sample))

\* Three or more bits with a repeated bit were sent, every value was read,
\* the last one more than once, and all bits came out.
C2_Witness ==
    /\ ~skipped /\ ~stale
    /\ Len(sent) >= 3
    /\ \E i \in 1..(Len(sent) - 1) : sent[i] = sent[i + 1]
    /\ \E i \in 1..(Len(sent) - 1) : sent[i] # sent[i + 1]
    /\ IsSome(prev_sample) /\ IsSome(last_sample)
    /\ Unwrap(prev_sample).n = Len(sent)
    /\ Unwrap(last_sample).n = Len(sent)
    /\ decoded = sent

RangeOfBit(b) == IF b = OFF THEN ranges.off ELSE ranges.on

\* C3: every two consecutive emitted integers differ; two identical
\* consecutive bits give two distinct integers of that bit's range, two
\* differing bits give integers of different ranges.
C3_ConsecutiveDiffer ==
    \A i \in 1..(Len(values) - 1) :
        /\ values[i] # values[i + 1]
        /\ contains(RangeOfBit(sent[i]), values[i])
        /\ contains(RangeOfBit(sent[i + 1]), values[i + 1])
        /\ ~contains(RangeOfBit(~sent[i]), values[i])
        /\ ~contains(RangeOfBit(~sent[i + 1]), values[i + 1])

\* Three identical bits in a row in a range of two values: the cursor wrapped.
C3_Witness ==
    /\ Len(values) >= 3
    /\ sent[Len(sent)] = sent[Len(sent) - 1]
    /\ sent[Len(sent) - 1] = sent[Len(sent) - 2]
    /\ values[Len(values)] = values[Len(values) - 2]
    /\ values[Len(values)] # values[Len(values) - 1]

C4_Start ==
    (sent = << >>) =>
        /\ tx.off = ranges.off.start
        /\ tx.on = ranges.on.start
        /\ tx.current = None

C4_Step ==
    \A b \in BOOLEAN :
        (sent' = Append(sent, b)) =>
            LET cur == IF b = OFF THEN tx.off ELSE tx.on
                rng == RangeOfBit(b)
                adv == IF cur + 1 = rng.end THEN rng.start ELSE cur + 1
                new == IF tx.current = Some(b) THEN adv ELSE cur
            IN  /\ (b = OFF => tx'.off = new /\ tx'.on = tx.on)
                /\ (b = ON => tx'.on = new /\ tx'.off = tx.off)
                /\ values' = Append(values, new)
                /\ CURRENT_SIGNAL' = new
                /\ tx'.current = Some(b)
                /\ (tx.current = None => (tx'.off = tx.off /\ tx'.on = tx.on))

\* C4: both cursors start at their range's start; on bit b the cursor of b's
\* range advances by one (wrapping to the range start at the range end) when
\* b equals the previously sent bit and is left alone otherwise; the emitted
\* integer is that cursor; the other cursor is unchanged; the previous bit
\* becomes b; the first bit never advances a cursor.
C4_TxStep == C4_Start /\ [][C4_Step]_vars

\* A repeated bit advanced its cursor, a further repeat wrapped it to the
\* range start, and the other cursor still is where a change of bit left it.
C4_Witness ==
    /\ Len(sent) >= 4
    /\ sent[1] # sent[2]
    /\ sent[2] = sent[3] /\ sent[3] = sent[4]
    /\ values[4] = RangeOfBit(sent[4]).start
    /\ values[3] = values[4] + 1
    /\ values[1] = RangeOfBit(sent[1]).start

----------------------------------------------------------------------------
(* RtsmRx over an IteratorRx that yields arbitrary integers (the tests      *)
(* test_rtsm_rx_error and test_deduplication), called again after an error  *)
(* as the example's main loop does.                                         *)

\* Range pairs of the tests: (0..10, 20..30) and (0..10, 10..20).
TestRanges ==
    { [off |-> Range(0, 10), on |-> Range(20, 30)],
      [off |-> Range(0, 10), on |-> Range(10, 20)] }

\* Integers the inner Rx can yield: in one range, in the other, in neither.
RxValues == {0, 1, 10, 11, 20, 99}

\* The integers the inner Rx yields next, followed by Ok(None).
RxLookahead ==
    { <<v>> : v \in RxValues } \cup { << >> }

\* `k` re-reads of the last accepted value (when there is one) before `seq`.
Reread(last, k, seq) ==
    IF IsSome(last) THEN [i \in 1..k |-> Unwrap(last)] \o seq ELSE seq

\* The loop of RtsmRx::recv from the i-th integer of seq on: st is
\* [last, prev_ev, last_ev]; returns the state and the value returned.
RECURSIVE recv_loop(_, _, _, _)
recv_loop(st, r, seq, i) ==
    IF i > Len(seq)
    THEN [st |-> st, out |-> <<"none">>]
    ELSE LET d == decode(st.last, r, seq[i])
             ev == [value |-> seq[i], before |-> st.last,
                    out |-> d.out, after |-> d.last]
             st2 == [last |-> d.last, prev_ev |-> st.last_ev, last_ev |-> Some(ev)]
         IN  IF d.out[1] = "silent"
             THEN recv_loop(st2, r, seq, i + 1)
             ELSE [st |-> st2, out |-> d.out]

RxInit ==
    /\ ProviderIdle
    /\ MorseIdle
    /\ NewIdle
    /\ RtsmIdle
    /\ MultiIdle
    /\ ranges \in TestRanges
    /\ rtsm_last = None
    /\ inner_done = FALSE
    /\ rx_out = None
    /\ prev_ev = None
    /\ last_ev = None

\* One call of RtsmRx::recv while the inner Rx still has items: it skips k
\* re-reads and returns on the first integer that is not silent, or returns
\* Ok(None) when the inner Rx ends first.
RtsmRx_recv(k, seq) ==
    /\ ~inner_done
    /\ LET r == recv_loop([last |-> rtsm_last, prev_ev |-> prev_ev, last_ev |-> last_ev],
                          ranges, Reread(rtsm_last, k, seq), 1)
       IN  /\ rtsm_last' = r.st.last
           /\ prev_ev' = r.st.prev_ev
           /\ last_ev' = r.st.last_ev
           /\ rx_out' = Some(r.out)
           /\ inner_done' = (r.out[1] = "none")
    /\ UNCHANGED ranges
    /\ UNCHANGED notRx

\* A call of RtsmRx::recv after the inner IteratorRx ended: Ok(None) again.
RtsmRx_recv_ended ==
    /\ inner_done
    /\ rx_out' = Some(<<"none">>)
    /\ UNCHANGED <<ranges, rtsm_last, inner_done, prev_ev, last_ev>>
    /\ UNCHANGED notRx

RxNext ==
    \/ \E k \in 0..MaxRepeat, seq \in RxLookahead : RtsmRx_recv(k, seq)
    \/ RtsmRx_recv_ended

SpecRx == RxInit /\ [][RxNext]_vars

----------------------------------------------------------------------------
(* Claims about RtsmRx (specification SpecRx) *)

InRange(v) == contains(ranges.off, v) \/ contains(ranges.on, v)

C5_Event(e) ==
    \* an integer equal to the last accepted one: no bit, state unchanged
    /\ (e.before = Some(e.value)) =>
            (e.out = <<"silent">> /\ e.after = e.before)
    \* an integer in neither range: DecodeError carrying it, last cleared
    /\ ~InRange(e.value) =>
            (e.out = <<"err", e.value>> /\ e.after = None)
    \* any other integer is decoded normally
    /\ (InRange(e.value) /\ e.before # Some(e.value)) =>
            (e.out = <<"bit", contains(ranges.on, e.value)>> /\ e.after = Some(e.value))

\* C5: an integer equal to the last accepted one yields no bit and leaves the
\* decoder unchanged; an integer in neither range yields a DecodeError with
\* that integer and clears the last accepted value, so the next in-range
\* integer is emitted as a bit even when it equals the one accepted before
\* the error; after the error the stream stays open and later integers are
\* decoded normally.
C5_Decode ==
    /\ IsSome(last_ev) => C5_Event(Unwrap(last_ev))
    /\ (IsSome(prev_ev) /\ IsSome(last_ev)) =>
          LET p == Unwrap(prev_ev)
              e == Unwrap(last_ev)
          IN  /\ e.before = p.after
              /\ (p.out[1] = "err" /\ InRange(e.value)) => e.out[1] = "bit"
    /\ (IsSome(rx_out) /\ Unwrap(rx_out)[1] = "err") =>
          (~inner_done /\ IsSome(last_ev) /\ Unwrap(rx_out) = Unwrap(last_ev).out
             /\ rtsm_last = None)
    /\ IsSome(last_ev) => rtsm_last = Unwrap(last_ev).after

\* An integer was accepted, an out-of-range integer raised the error, and the
\* integer accepted before the error came again and was returned as a bit.
C5_Witness ==
    /\ IsSome(prev_ev) /\ IsSome(last_ev)
    /\ Unwrap(prev_ev).out[1] = "err"
    /\ IsSome(Unwrap(prev_ev).before)
    /\ Unwrap(prev_ev).before = Some(Unwrap(last_ev).value)
    /\ Unwrap(last_ev).out[1] = "bit"
    /\ rx_out = Some(Unwrap(last_ev).out)

----------------------------------------------------------------------------
(* RtsmMultiRx over an IteratorRx of vectors (test_multi, and the consumer  *)
(* decoder, whose factory gives every channel the same ranges).             *)

\* The ranges of test_multi: (0..10, 10..20).
MultiRanges == { [off |-> Range(0, 10), on |-> Range(10, 20)] }

\* One OFF integer, two ON integers, one integer of neither range.
MultiValues == {0, 10, 11, 99}

RECURSIVE VectorsOfLen(_)
VectorsOfLen(n) ==
    IF n = 0 THEN { << >> }
    ELSE { Append(v, x) : v \in VectorsOfLen(n - 1), x \in MultiValues }

MultiVectors == UNION { VectorsOfLen(n) : n \in 0..MaxChan }

\* get_rtsm: the cores grown on demand up to `index`, each new one with
\* last = None (RtsmRxCore::new of factory(i)).
get_rtsm(rtsm, index) ==
    IF index <= Len(rtsm) THEN rtsm
    ELSE rtsm \o [i \in 1..(index - Len(rtsm)) |-> None]

\* The for loop of RtsmMultiRx::recv over one vector, from channel i on:
\* decode(item)? returns the DecodeError at once.
RECURSIVE decode_vec(_, _, _, _, _)
decode_vec(rtsm, r, vec, i, opt) ==
    IF i > Len(vec)
    THEN [rtsm |-> rtsm, opt |-> opt, err |-> None]
    ELSE LET cores == get_rtsm(rtsm, i)
             d == decode(cores[i], r, vec[i])
             cores2 == [cores EXCEPT ![i] = d.last]
         IN  IF d.out[1] = "err"
             THEN [rtsm |-> cores2, opt |-> opt, err |-> Some(d.out)]
             ELSE decode_vec(cores2, r, vec, i + 1, Append(opt, d.out))

SelectBits(opt) ==
    LET F[i \in 0..Len(opt)] ==
            IF i = 0 THEN << >>
            ELSE IF opt[i][1] = "bit" THEN Append(F[i - 1], opt[i][2]) ELSE F[i - 1]
    IN  F[Len(opt)]

\* transform_opt_vec: <<"vec", bits>> for Ok(Some(out)), <<"skip">> for
\* Ok(None), <<"partial">> for Err("Some Rtsm returned value, while others not").
transform_opt_vec_lenient(opt) ==
    LET all_some == \A i \in 1..Len(opt) : opt[i][1] = "bit"
        all_none == \A i \in 1..Len(opt) : opt[i][1] = "silent"
    IN  IF all_none /\ ~all_some THEN <<"skip">> ELSE <<"vec", SelectBits(opt)>>

transform_opt_vec(opt) ==
    LET all_some == \A i \in 1..Len(opt) : opt[i][1] = "bit"
        all_none == \A i \in 1..Len(opt) : opt[i][1] = "silent"
        out == SelectBits(opt)
    IN  IF ~all_some /\ ~all_none THEN <<"partial">>
        ELSE IF all_some /\ all_none THEN <<"vec", out>>
        ELSE IF all_some THEN <<"vec", out>>
        ELSE <<"skip">>

\* The loop of RtsmMultiRx::recv from the i-th vector of seq on; ev is the
\* record of the last vector read.
RECURSIVE multi_recv_loop(_, _, _, _, _)
multi_recv_loop(rtsm, r, seq, i, ev) ==
    IF i > Len(seq)
    THEN [rtsm |-> rtsm, out |-> <<"none">>, ev |-> ev]
    ELSE LET dv == decode_vec(rtsm, r, seq[i], 1, << >>)
             res == IF IsSome(dv.err) THEN Unwrap(dv.err) ELSE transform_opt_vec(dv.opt)
             ev2 == Some([vec |-> seq[i], before |-> rtsm, out |-> res,
                          after |-> dv.rtsm, skips |-> i - 1])
         IN  IF res = <<"skip">>
             THEN multi_recv_loop(dv.rtsm, r, seq, i + 1, ev2)
             ELSE [rtsm |-> dv.rtsm, out |-> res, ev |-> ev2]

\* The vector of n channels that re-reads every channel's last accepted value.
CanReread(rtsm, n) ==
    /\ n >= 1 /\ n <= Len(rtsm)
    /\ \A i \in 1..n : IsSome(rtsm[i])

SilentVec(rtsm, n) == [i \in 1..n |-> Unwrap(rtsm[i])]

MultiInit ==
    /\ ProviderIdle
    /\ MorseIdle
    /\ NewIdle
    /\ RtsmIdle
    /\ RxIdle
    /\ ranges \in MultiRanges
    /\ multi_rtsm = << >>
    /\ multi_done = FALSE
    /\ multi_out = None
    /\ last_mv = None

MultiStep(seq) ==
    LET r == multi_recv_loop(multi_rtsm, ranges, seq, 1, last_mv)
    IN  /\ multi_rtsm' = r.rtsm
        /\ multi_out' = Some(r.out)
        /\ last_mv' = r.ev
        /\ multi_done' = (r.out[1] = "none")
        /\ UNCHANGED ranges
        /\ UNCHANGED notMulti

\* One call of RtsmMultiRx::recv: the inner Rx yields `fin` next.
RtsmMultiRx_recv(fin) ==
    /\ ~multi_done
    /\ MultiStep(fin)

\* One call of RtsmMultiRx::recv: the inner Rx first yields k re-reads of
\* n channels, which the loop skips, and then `fin`.
RtsmMultiRx_recv_reread(k, n, fin) ==
    /\ ~multi_done
    /\ CanReread(multi_rtsm, n)
    /\ MultiStep([i \in 1..k |-> SilentVec(multi_rtsm, n)] \o fin)

\* A call of RtsmMultiRx::recv after the inner IteratorRx ended.
RtsmMultiRx_recv_ended ==
    /\ multi_done
    /\ multi_out' = Some(<<"none">>)
    /\ UNCHANGED <<ranges, multi_rtsm, multi_done, last_mv>>
    /\ UNCHANGED notMulti

\* What the inner Rx yields last in one call: one vector, or its end.
MultiFinal == { <<v>> : v \in MultiVectors } \cup { << >> }

MultiNext ==
    \/ \E fin \in MultiFinal : RtsmMultiRx_recv(fin)
    \/ \E k \in 1..MaxRepeat, n \in 1..MaxChan, fin \in MultiFinal :
            RtsmMultiRx_recv_reread(k, n, fin)
    \/ RtsmMultiRx_recv_ended

SpecMulti == MultiInit /\ [][MultiNext]_vars

----------------------------------------------------------------------------
(* Claims about RtsmMultiRx (specification SpecMulti) *)

\* Channel i's last accepted value before the vector (None: not yet created).
LastBefore(e, i) == IF i <= Len(e.before) THEN e.before[i] ELSE None

ChanSilent(e, i) == LastBefore(e, i) = Some(e.vec[i])
ChanBit(e, i) == ~ChanSilent(e, i) /\ InRange(e.vec[i])
ChanError(e, i) == ~InRange(e.vec[i])

C7_Event(e) ==
    LET n == Len(e.vec)
        clean == \A i \in 1..n : ~ChanError(e, i)
    IN  (n >= 1 /\ clean) =>
          \* every channel produced a bit: the vector of classified bits
          /\ (\A i \in 1..n : ChanBit(e, i)) =>
                e.out = <<"vec", [i \in 1..n |-> contains(ranges.on, e.vec[i])]>>
          \* every channel silent: nothing for this vector
          /\ (\A i \in 1..n : ChanSilent(e, i)) =>
                (e.out = <<"skip">> /\ e.after = e.before)
          \* some produced a bit, others were silent: an error
          /\ ((\E i \in 1..n : ChanBit(e, i)) /\ (\E i \in 1..n : ChanSilent(e, i))) =>
                e.out = <<"partial">>
          \* each channel has its own last accepted value, created on first sighting
          /\ Len(e.after) = (IF n > Len(e.before) THEN n ELSE Len(e.before))
          /\ \A i \in 1..n : e.after[i] = Some(e.vec[i])
          /\ \A i \in (n + 1)..Len(e.before) : e.after[i] = e.before[i]

\* C7: for each input vector with one integer per channel, RtsmMultiRx
\* returns the vector of classified bits when every channel produced a bit,
\* produces nothing for it and goes on when every channel was silent, and
\* returns an error when some channels produced a bit and others were
\* silent; each channel keeps its own last accepted value, created on first
\* sighting of its position.
C7_Multi ==
    /\ IsSome(last_mv) => C7_Event(Unwrap(last_mv))
    /\ IsSome(last_mv) => multi_rtsm = Unwrap(last_mv).after
    /\ (IsSome(last_mv) /\ IsSome(multi_out)) =>
          LET e == Unwrap(last_mv)
          IN  /\ e.out[1] \in {"vec", "err", "partial"} => (multi_out = Some(e.out) \/ multi_done)
              /\ e.out[1] = "skip" => multi_done

\* Two channels: after a vector that was wholly re-read and skipped in the
\* same call, a vector in which both channels changed gave two bits.
C7_WitnessAll ==
    /\ IsSome(last_mv)
    /\ LET e == Unwrap(last_mv)
       IN  /\ Len(e.vec) = 2 /\ e.skips >= 1
           /\ e.out[1] = "vec" /\ Len(e.out[2]) = 2
           /\ e.vec[1] = 11 /\ e.before[1] = Some(10)
    /\ multi_out = Some(Unwrap(last_mv).out)

\* A vector in which one channel changed and the other did not gave the error.
C7_WitnessPartial ==
    /\ IsSome(last_mv)
    /\ LET e == Unwrap(last_mv)
       IN  /\ Len(e.vec) = 2
           /\ ChanBit(e, 1) /\ ChanSilent(e, 2)
           /\ e.out = <<"partial">>

----------------------------------------------------------------------------
(* RtsmRanges::new on every pair of ranges over boundary values of an       *)
(* unsigned and a signed integer type.                                      *)

TypeValues(t) ==
    IF t = "u8" THEN {0, 1, 2, 3, 128, 255}
    ELSE {-128, -1, 0, 1, 2, 127}

NewInit ==
    /\ ProviderIdle
    /\ MorseIdle
    /\ RtsmIdle
    /\ RxIdle
    /\ MultiIdle
    /\ ranges = None
    /\ ty \in {"u8", "i8"}
    /\ build \in {"debug", "release"}
    /\ \E s1 \in TypeValues(ty), e1 \in TypeValues(ty) : arg_off = Range(s1, e1)
    /\ \E s2 \in TypeValues(ty), e2 \in TypeValues(ty) : arg_on = Range(s2, e2)
    /\ new_result = None

\* The call RtsmRanges::new(off, on).
RtsmRanges_new_call ==
    /\ new_result = None
    /\ new_result' = Some(RtsmRanges_new(ty, build, arg_off, arg_on))
    /\ UNCHANGED <<ty, build, arg_off, arg_on>>
    /\ UNCHANGED notNew

NewNext == RtsmRanges_new_call

SpecNew == NewInit /\ [][NewNext]_vars

----------------------------------------------------------------------------
(* Claims about RtsmRanges::new (specification SpecNew) *)

\* Both ranges ordered, both of at least two values, and disjoint.
RangesWellFormed(off, on) ==
    /\ off.start < off.end
    /\ on.start < on.end
    /\ Cardinality(off.start..(off.end - 1)) >= 2
    /\ Cardinality(on.start..(on.end - 1)) >= 2
    /\ (off.start..(off.end - 1)) \cap (on.start..(on.end - 1)) = {}

\* C6: RtsmRanges::new(off, on) succeeds exactly when both ranges have
\* start < end, both hold at least two values and the two are disjoint, and
\* fails otherwise (an error or a panic), for every supported integer type,
\* signed types with ranges wider than the type's maximum included.
C6_NewIffWellFormed ==
    IsSome(new_result) =>
        IF RangesWellFormed(arg_off, arg_on)
        THEN new_result = Some("Ok")
        ELSE new_result \in {Some("Err"), Some("panic")}

\* RtsmRanges::<i8>::new(-128..0, 0..2): both ranges ordered, of 128 and 2
\* values, disjoint; the call did not return Ok.
C6_WideSignedRejected ==
    /\ ty = "i8"
    /\ arg_off = Range(-128, 0)
    /\ arg_on = Range(0, 2)
    /\ RangesWellFormed(arg_off, arg_on)
    /\ new_result \in {Some("Err"), Some("panic")}

\* The same statement for the types and ranges where end - start fits T.
C6_NewIffWellFormedNarrow ==
    (IsSome(new_result)
        /\ arg_off.end - arg_off.start <= T_MAX(ty)
        /\ arg_on.end - arg_on.start <= T_MAX(ty)) =>
        IF RangesWellFormed(arg_off, arg_on)
        THEN new_result = Some("Ok")
        ELSE new_result = Some("Err")

----------------------------------------------------------------------------
(* Morse code: CodePoint, the ITU dialect *)

II == "Dot"
OOOOOO == "Dash"

\* CodePoint::duration
duration(cp) ==
    IF cp \in {"Dot", "SymbolPause"} THEN 1
    ELSE IF cp \in {"Dash", "LetterPause"} THEN 3
    ELSE 7

\* CodePoint::encode
CodePoint_encode(cp) ==
    [i \in 1..duration(cp) |-> IF cp \in {"Dot", "Dash"} THEN ON ELSE OFF]

is_dot_or_dash(cp) == cp \in {"Dot", "Dash"}
is_space(cp) == cp \in {"SymbolPause", "LetterPause", "WordPause"}

TABLE_ITU == <<
    <<"A", <<II, OOOOOO>>>>,
    <<"B", <<OOOOOO, II, II, II>>>>,
    <<"C", <<OOOOOO, II, OOOOOO, II>>>>,
    <<"D", <<OOOOOO, II, II>>>>,
    <<"E", <<II>>>>,
    <<"F", <<II, II, OOOOOO, II>>>>,
    <<"G", <<OOOOOO, OOOOOO, II>>>>,
    <<"H", <<II, II, II, II>>>>,
    <<"I", <<II, II>>>>,
    <<"J", <<II, OOOOOO, OOOOOO, OOOOOO>>>>,
    <<"K", <<OOOOOO, II, OOOOOO>>>>,
    <<"L", <<II, OOOOOO, II, II>>>>,
    <<"M", <<OOOOOO, OOOOOO>>>>,
    <<"N", <<OOOOOO, II>>>>,
    <<"O", <<OOOOOO, OOOOOO, OOOOOO>>>>,
    <<"P", <<II, OOOOOO, OOOOOO, II>>>>,
    <<"Q", <<OOOOOO, OOOOOO, II, OOOOOO>>>>,
    <<"R", <<II, OOOOOO, II>>>>,
    <<"S", <<II, II, II>>>>,
    <<"T", <<OOOOOO>>>>,
    <<"U", <<II, II, OOOOOO>>>>,
    <<"V", <<II, II, II, OOOOOO>>>>,
    <<"W", <<II, OOOOOO, OOOOOO>>>>,
    <<"X", <<OOOOOO, II, II, OOOOOO>>>>,
    <<"Y", <<OOOOOO, II, OOOOOO, OOOOOO>>>>,
    <<"Z", <<OOOOOO, OOOOOO, II, II>>>>,
    <<"1", <<II, OOOOOO, OOOOOO, OOOOOO, OOOOOO>>>>,
    <<"2", <<II, II, OOOOOO, OOOOOO, OOOOOO>>>>,
    <<"3", <<II, II, II, OOOOOO, OOOOOO>>>>,
    <<"4", <<II, II, II, II, OOOOOO>>>>,
    <<"5", <<II, II, II, II, II>>>>,
    <<"6", <<OOOOOO, II, II, II, II>>>>,
    <<"7", <<OOOOOO, OOOOOO, II, II, II>>>>,
    <<"8", <<OOOOOO, OOOOOO, OOOOOO, II, II>>>>,
    <<"9", <<OOOOOO, OOOOOO, OOOOOO, OOOOOO, II>>>>,
    <<"0", <<OOOOOO, OOOOOO, OOOOOO, OOOOOO, OOOOOO>>>>,
    <<"0", <<OOOOOO>>>>,
    <<".", <<II, OOOOOO, II, OOOOOO, II, OOOOOO>>>>,
    <<",", <<OOOOOO, OOOOOO, II, II, OOOOOO, OOOOOO>>>>,
    <<"?", <<II, II, OOOOOO, OOOOOO, II, II>>>>,
    <<"'", <<II, OOOOOO, OOOOOO, OOOOOO, OOOOOO, II>>>>,
    <<"!", <<OOOOOO, II, OOOOOO, II, OOOOOO, OOOOOO>>>>,
    <<"/", <<OOOOOO, II, II, OOOOOO, II>>>>,
    <<"(", <<OOOOOO, II, OOOOOO, OOOOOO, II>>>>,
    <<")", <<OOOOOO, II, OOOOOO, OOOOOO, II, OOOOOO>>>>,
    <<"&", <<II, OOOOOO, II, II, II>>>>,
    <<":", <<OOOOOO, OOOOOO, OOOOOO, II, II, II>>>>,
    <<"=", <<OOOOOO, II, II, II, OOOOOO>>>>,
    <<"+", <<II, OOOOOO, II, OOOOOO, II>>>>,
    <<"-", <<OOOOOO, II, II, II, II, OOOOOO>>>>,
    <<"\"", <<II, OOOOOO, II, II, OOOOOO, II>>>>,
    <<"@", <<II, OOOOOO, OOOOOO, II, OOOOOO, II>>>> >>

\* ITU::EMPTY, the encoding of an unknown character
encode_unknown == << >>

LowerCase == <<"a", "b", "c", "d", "e", "f", "g", "h", "i", "j", "k", "l", "m",
               "n", "o", "p", "q", "r", "s", "t", "u", "v", "w", "x", "y", "z">>
UpperCase == <<"A", "B", "C", "D", "E", "F", "G", "H", "I", "J", "K", "L", "M",
               "N", "O", "P", "Q", "R", "S", "T", "U", "V", "W", "X", "Y", "Z">>

\* char::to_uppercase().next() on ASCII
to_uppercase(c) ==
    IF \E i \in 1..26 : LowerCase[i] = c
    THEN UpperCase[CHOOSE i \in 1..26 : LowerCase[i] = c]
    ELSE c

\* char::is_ascii_whitespace: space, tab, line feed, form feed, carriage return
is_ascii_whitespace(c) == c \in {" ", "\t", "\n", "\f", "\r"}

\* The first table row that satisfies P, as an Option of its index.
FirstRow(P(_)) ==
    IF \E i \in 1..Len(TABLE_ITU) : P(TABLE_ITU[i])
    THEN Some(CHOOSE i \in 1..Len(TABLE_ITU) :
                /\ P(TABLE_ITU[i])
                /\ \A j \in 1..(i - 1) : ~P(TABLE_ITU[j]))
    ELSE None

\* Dialect::encode_char: Option of the code of the first row whose character
\* is the upper-cased or the given character.
encode_char(c) ==
    LET upper == to_uppercase(c)
        P(row) == row[1] = upper \/ row[1] = c
        f == FirstRow(P)
    IN  IF IsSome(f) THEN Some(TABLE_ITU[Unwrap(f)][2]) ELSE None

\* Dialect::can_encode
can_encode(c) == is_ascii_whitespace(c) \/ IsSome(encode_char(c))

\* Dialect::decode_char: <<"panic">> when an assertion fails, else
\* <<"ok", Option of the character of the first row with this encoding>>.
decode_char(seq) ==
    IF seq = << >> THEN <<"panic">>
    ELSE IF ~(\A i \in 1..Len(seq) : seq[i] \in {"Dot", "Dash"}) THEN <<"panic">>
    ELSE LET P(row) == row[2] = seq
             f == FirstRow(P)
         IN  <<"ok", IF IsSome(f) THEN Some(TABLE_ITU[Unwrap(f)][1]) ELSE None>>

----------------------------------------------------------------------------
(* EncoderTx: e is [pause_duration, pause_written, tx], tx the units sent   *)
(* to the inner Tx so far.                                                  *)

Max(x, y) == IF x >= y THEN x ELSE y

Times(n, x) == [i \in 1..n |-> x]

EncoderTx_new == [pause_duration |-> 0, pause_written |-> 0]

\* send_pause: the OFF units of the pause not written yet
send_pause(e) ==
    [e EXCEPT !.tx = @ \o Times(e.pause_duration - e.pause_written, OFF),
              !.pause_written = e.pause_duration]

\* set_pause
set_pause(e, pause) ==
    send_pause([e EXCEPT !.pause_duration = Max(e.pause_duration, duration(pause))])

\* flush_pause
flush_pause_keep(e) == send_pause(e)

flush_pause(e) ==
    [send_pause(e) EXCEPT !.pause_duration = 0, !.pause_written = 0]

\* send_dot_or_dash
send_dot_or_dash(e, symbol) ==
    LET f == flush_pause(e)
        g == [f EXCEPT !.tx = @ \o CodePoint_encode(symbol)]
    IN  set_pause(g, "SymbolPause")

\* send_encoded_char
RECURSIVE send_symbols(_, _, _)
send_symbols(e, symbols, i) ==
    IF i > Len(symbols) THEN e
    ELSE send_symbols(send_dot_or_dash(e, symbols[i]), symbols, i + 1)

send_encoded_char(e, symbols) ==
    set_pause(send_symbols(e, symbols, 1), "LetterPause")

\* send_unknown: the dialect's encode_unknown is empty
RECURSIVE flat_encode(_, _)
flat_encode(cps, i) ==
    IF i > Len(cps) THEN << >> ELSE CodePoint_encode(cps[i]) \o flat_encode(cps, i + 1)

send_unknown(e) ==
    [flush_pause(e) EXCEPT !.tx = @ \o flat_encode(encode_unknown, 1)]

\* send_char
send_char(e, c) ==
    LET symbols == encode_char(c)
    IN  IF IsSome(symbols) THEN send_encoded_char(e, Unwrap(symbols))
        ELSE IF is_ascii_whitespace(c) THEN set_pause(e, "WordPause")
        ELSE send_unknown(e)

----------------------------------------------------------------------------
(* DecoderRx *)

\* SignalGroup::new
SignalGroup_new(state) == [state |-> state, duration |-> 1]

\* SignalGroup::inc: saturating
inc_wrapping(g) == [g EXCEPT !.duration = (@ % U8_MAX) + 1]

inc(g) == [g EXCEPT !.duration = IF @ = U8_MAX THEN U8_MAX ELSE @ + 1]

\* SignalGroup::is_valid
is_valid_upto4(g) == IF g.state = ON THEN g.duration <= 4 ELSE TRUE

is_valid(g) == IF g.state = ON THEN g.duration <= 3 ELSE TRUE

\* SignalGroup::to_code_point
to_code_point(g) ==
    IF g.state = ON
    THEN IF g.duration = 1 THEN Some("Dot")
         ELSE IF g.duration = 3 THEN Some("Dash")
         ELSE None
    ELSE IF g.duration >= 7 THEN Some("WordPause")
         ELSE IF g.duration >= 3 THEN Some("LetterPause")
         ELSE IF g.duration >= 1 THEN Some("SymbolPause")
         ELSE None

\* boxed_error_from_group: MorseDecodeError::Signal
boxed_error_from_group(group) ==
    <<"err", "signal",
      IF IsSome(group) THEN Times(Unwrap(group).duration, Unwrap(group).state) ELSE << >>>>

\* add_signal_unit on d = [current_group, current_letter]: the new d, the
\* finished group (an Option) and the error returned (an Option).
add_signal_unit(d, unit) ==
    IF d.current_group = None
    THEN [d |-> [d EXCEPT !.current_group = Some(SignalGroup_new(unit))],
          finished |-> None, err |-> None]
    ELSE IF Unwrap(d.current_group).state = unit
    THEN LET current == inc(Unwrap(d.current_group))
         IN  IF ~is_valid(current)
             \* reset_with_signal_error: reset_letter, then reset_group
             THEN [d |-> [current_group |-> None, current_letter |-> << >>],
                   finished |-> None,
                   err |-> Some(boxed_error_from_group(Some(current)))]
             ELSE [d |-> [d EXCEPT !.current_group = Some(current)],
                   finished |-> None, err |-> None]
    ELSE [d |-> [d EXCEPT !.current_group = Some(SignalGroup_new(unit))],
          finished |-> d.current_group, err |-> None]

\* read_signal_unit_and_update_current_group: item is what inner.recv() gave
read_signal_unit_and_update_current_group(d, item) ==
    IF item = None
    THEN [d |-> [d EXCEPT !.current_group = None],
          finished |-> d.current_group, err |-> None]
    ELSE add_signal_unit(d, Unwrap(item))

\* decode_current_letter: the new d and what read_char returns
decode_current_letter(d) ==
    LET r == decode_char(d.current_letter)
    IN  IF r[1] = "panic" THEN [d |-> d, ret |-> <<"panic">>]
        ELSE IF r[2] = None
        \* reset_with_letter_error
        THEN [d |-> [d EXCEPT !.current_letter = << >>],
              ret |-> <<"err", "letter", d.current_letter>>]
        ELSE [d |-> [d EXCEPT !.current_letter = << >>],
              ret |-> <<"char", Unwrap(r[2])>>]

\* One iteration of the loop of read_char: the new d and <<"continue">>, or
\* what read_char returns: <<"char", c>>, <<"none">>, <<"err", kind, data>>,
\* or <<"panic">>.
read_char_iteration(d, item) ==
    LET u == read_signal_unit_and_update_current_group(d, item)
    IN  IF IsSome(u.err) THEN [d |-> u.d, ret |-> Unwrap(u.err)]
        ELSE IF IsSome(u.finished)
        THEN LET group == Unwrap(u.finished)
             IN  IF group.state = ON
                 THEN LET code_point == to_code_point(group)
                      IN  IF code_point = None
                          THEN [d |-> u.d, ret |-> boxed_error_from_group(Some(group))]
                          ELSE [d |-> [u.d EXCEPT !.current_letter =
                                           Append(@, Unwrap(code_point))],
                                ret |-> <<"continue">>]
                 ELSE [d |-> u.d, ret |-> <<"continue">>]
        ELSE IF u.d.current_group = None THEN [d |-> u.d, ret |-> <<"none">>]
        ELSE LET g == Unwrap(u.d.current_group)
             IN  IF g.state = OFF /\ g.duration = 7 THEN [d |-> u.d, ret |-> <<"char", " ">>]
                 ELSE IF g.state = OFF /\ g.duration = 3 THEN decode_current_letter(u.d)
                 ELSE [d |-> u.d, ret |-> <<"continue">>]

\* IteratorRx::recv over the buffer
inner_recv == IF rd < Len(buffer) THEN Some(buffer[rd + 1]) ELSE None

DecoderInit ==
    /\ rd = 0
    /\ current_group = None
    /\ current_letter = << >>
    /\ chars = << >>
    /\ dec_errs = << >>
    /\ dec_state = "running"
    /\ dec_ev = None

\* One iteration of read_char inside DecoderRx::recv; the caller calls recv
\* again after a character or an error, as the example's main loop does.
DecoderStep ==
    /\ closed
    /\ dec_state = "running"
    /\ LET item == inner_recv
           r == read_char_iteration(
                    [current_group |-> current_group, current_letter |-> current_letter],
                    item)
       IN  /\ rd' = IF IsSome(item) THEN rd + 1 ELSE rd
           /\ current_group' = r.d.current_group
           /\ current_letter' = r.d.current_letter
           /\ chars' = IF r.ret[1] = "char" THEN Append(chars, r.ret[2]) ELSE chars
           /\ dec_errs' = IF r.ret[1] = "err" THEN Append(dec_errs, r.ret) ELSE dec_errs
           /\ dec_state' = IF r.ret[1] = "none" THEN "ended"
                           ELSE IF r.ret[1] = "panic" THEN "panicked"
                           ELSE "running"
           /\ dec_ev' = Some([item |-> item, group |-> current_group,
                              letter |-> current_letter, ret |-> r.ret])
    /\ UNCHANGED encVars
    /\ UNCHANGED notMorse

----------------------------------------------------------------------------
(* Encoding a string and decoding the units it produced (encode_str, then   *)
(* DecoderRx over IteratorRx::from of the buffer).                          *)

\* Characters sent: a lower-case letter of two symbols, a letter of one
\* dash, two kinds of whitespace, a character unknown to the dialect.
MorseChars == {"a", "T", " ", "\n", "#"}

MorseInit ==
    /\ ProviderIdle
    /\ RtsmIdle
    /\ RxIdle
    /\ MultiIdle
    /\ NewIdle
    /\ ranges = None
    /\ str = << >>
    /\ enc = EncoderTx_new
    /\ buffer = << >>
    /\ closed = FALSE
    /\ DecoderInit

\* EncoderTx::send of one character into the VecCollectorTx
EncoderSend(c) ==
    /\ ~closed
    /\ Len(str) < MaxChars
    /\ LET e == send_char([pause_duration |-> enc.pause_duration,
                           pause_written |-> enc.pause_written,
                           tx |-> buffer], c)
       IN  /\ enc' = [pause_duration |-> e.pause_duration,
                      pause_written |-> e.pause_written]
           /\ buffer' = e.tx
    /\ str' = Append(str, c)
    /\ UNCHANGED closed
    /\ UNCHANGED decVars
    /\ UNCHANGED notMorse

\* drop(coder): the buffer is handed to the decoder
EncoderDrop ==
    /\ ~closed
    /\ closed' = TRUE
    /\ UNCHANGED <<str, enc, buffer>>
    /\ UNCHANGED decVars
    /\ UNCHANGED notMorse

MorseNext ==
    \/ \E c \in MorseChars : EncoderSend(c)
    \/ EncoderDrop
    \/ DecoderStep

SpecMorse == MorseInit /\ [][MorseNext]_vars

----------------------------------------------------------------------------
(* Claims about encoding and decoding a string *)

\* Every character is one the dialect can encode, or ASCII whitespace.
Encodable(s) ==
    \A i \in 1..Len(s) : can_encode(s[i]) \/ is_ascii_whitespace(s[i])

\* s upper-cased, with every run of whitespace replaced by a single space
RECURSIVE Normalize(_, _)
Normalize(s, i) ==
    IF i > Len(s) THEN << >>
    ELSE IF is_ascii_whitespace(s[i])
    THEN IF i > 1 /\ is_ascii_whitespace(s[i - 1]) THEN Normalize(s, i + 1)
         ELSE <<" ">> \o Normalize(s, i + 1)
    ELSE <<to_uppercase(s[i])>> \o Normalize(s, i + 1)

\* C8: for every string of encodable characters and ASCII whitespace,
\* whitespace at the beginning or the end included, decoding the units the
\* encoder produced fails nowhere and, once the decoder has reported the end
\* of the stream, has returned the string upper-cased with every run of
\* whitespace replaced by a single space.
C8_RoundTrip ==
    (closed /\ Encodable(str)) =>
        /\ dec_state # "panicked"
        /\ dec_errs = << >>
        /\ (dec_state = "ended" => chars = Normalize(str, 1))

\* C8, for the strings that do not begin with whitespace: the same round trip.
C8_RoundTripNoLeadingSpace ==
    (closed /\ Encodable(str) /\ (str # << >> => ~is_ascii_whitespace(str[1]))) =>
        /\ dec_state # "panicked"
        /\ dec_errs = << >>
        /\ (dec_state = "ended" => chars = Normalize(str, 1))

\* two letters with a run of two whitespace characters between them, decoded
\* to the end of the stream
C8_Decoded ==
    /\ str = <<"a", " ", "\n", "T">>
    /\ dec_state = "ended"
    /\ chars = <<"A", " ", "T">>

\* a string that begins with whitespace: decode_char was called with no
\* symbols and its assertion failed
C8_LeadingSpacePanics ==
    /\ str = <<" ", "a">>
    /\ closed
    /\ dec_state = "panicked"
    /\ chars = << >>

----------------------------------------------------------------------------
(* Claims about the encoder's timing *)

\* A character the dialect has a row for.
IsLetter(c) == IsSome(encode_char(c))

\* Letters of the dialect, with whitespace only between two letters.
LettersAndInnerSpace(s) ==
    /\ Encodable(s)
    /\ s # << >> => (IsLetter(s[1]) /\ IsLetter(s[Len(s)]))

\* The units of one letter: one ON per dot, three per dash, one OFF between
\* two symbols.
RECURSIVE LetterUnits(_, _)
LetterUnits(symbols, i) ==
    IF i > Len(symbols) THEN << >>
    ELSE (IF symbols[i] = "Dot" THEN <<ON>> ELSE <<ON, ON, ON>>)
         \o (IF i < Len(symbols) THEN <<OFF>> ELSE << >>)
         \o LetterUnits(symbols, i + 1)

\* The units of a string: each letter, then seven OFFs when whitespace
\* follows it and three when a letter or the end does; whitespace adds nothing.
RECURSIVE StringUnits(_, _)
StringUnits(s, i) ==
    IF i > Len(s) THEN << >>
    ELSE IF IsLetter(s[i])
    THEN LetterUnits(Unwrap(encode_char(s[i])), 1)
         \o (IF i < Len(s) /\ is_ascii_whitespace(s[i + 1])
             THEN <<OFF, OFF, OFF, OFF, OFF, OFF, OFF>> ELSE <<OFF, OFF, OFF>>)
         \o StringUnits(s, i + 1)
    ELSE StringUnits(s, i + 1)

\* C9: for every string of dialect letters with whitespace between them, the
\* encoder has emitted one ON per dot and three per dash, exactly one OFF
\* between two symbols of a letter, exactly three OFFs after a letter that a
\* letter or the end of the input follows, and exactly seven OFFs between two
\* letters that a run of one or more whitespace characters separates.
C9_Timing ==
    LettersAndInnerSpace(str) => buffer = StringUnits(str, 1)

\* a letter of two symbols, a run of two whitespace characters, a letter
C9_Witness ==
    /\ str = <<"a", " ", "\n", "T">>
    /\ buffer = <<ON, OFF, ON, ON, ON,
                  OFF, OFF, OFF, OFF, OFF, OFF, OFF,
                  ON, ON, ON, OFF, OFF, OFF>>

----------------------------------------------------------------------------
(* DecoderRx over IteratorRx::from of any vector of units, as in           *)
(* test_decode_early_error.                                                *)

RECURSIVE SignalsOfLen(_)
SignalsOfLen(n) ==
    IF n = 0 THEN {<< >>}
    ELSE {Append(s, b) : s \in SignalsOfLen(n - 1), b \in {ON, OFF}}

Signals == UNION {SignalsOfLen(n) : n \in 0..MaxUnits}

DecoderOnlyInit ==
    /\ ProviderIdle
    /\ RtsmIdle
    /\ RxIdle
    /\ MultiIdle
    /\ NewIdle
    /\ ranges = None
    /\ str = << >>
    /\ enc = EncoderTx_new
    /\ buffer \in Signals
    /\ closed = TRUE
    /\ DecoderInit

DecoderNext == DecoderStep

SpecDecoder == DecoderOnlyInit /\ [][DecoderNext]_vars

\* The step just taken finished an ON run of n units: the run was current
\* and the step read an OFF or the end of the stream.
FinishedOnRun(e, n) ==
    /\ e.group = Some([state |-> ON, duration |-> n])
    /\ (e.item = None \/ e.item = Some(OFF))

IsSignalError(ret, run) ==
    /\ ret[1] = "err"
    /\ ret[2] = "signal"
    /\ ret[3] = run

\* C10: a finished ON run of length 1 appends Dot and one of length 3 appends
\* Dash to the current letter, with no error; a finished ON run of length 2,
\* ended by an OFF or by the end of the stream, yields a Signal error
\* carrying that run; an ON run that reaches length 4 yields a Signal error
\* at its fourth unit.
C10_OnRuns ==
    IsSome(dec_ev) =>
        LET e == Unwrap(dec_ev)
        IN  /\ FinishedOnRun(e, 1) =>
                /\ e.ret = <<"continue">>
                /\ current_letter = Append(e.letter, "Dot")
            /\ FinishedOnRun(e, 3) =>
                /\ e.ret = <<"continue">>
                /\ current_letter = Append(e.letter, "Dash")
            /\ FinishedOnRun(e, 2) => IsSignalError(e.ret, <<ON, ON>>)
            /\ (e.group = Some([state |-> ON, duration |-> 3]) /\ e.item = Some(ON)) =>
                IsSignalError(e.ret, <<ON, ON, ON, ON>>)

\* an ON run of two units was reported as a Signal error, and then an ON run
\* of three units, finished by the end of the stream, appended a Dash
C10_Witness ==
    /\ IsSome(dec_ev)
    /\ FinishedOnRun(Unwrap(dec_ev), 3)
    /\ Unwrap(dec_ev).item = None
    /\ current_letter = <<"Dash">>
    /\ Len(dec_errs) = 1
    /\ IsSignalError(dec_errs[1], <<ON, ON>>)

----------------------------------------------------------------------------
(* DecoderRx over a letter followed by a long run of OFF units.             *)

\* The units before the run: E, T, a sequence of four symbols that is in no
\* row of the table, and nothing.
OffRunPrefixes ==
    {<<ON>>,
     <<ON, ON, ON>>,
     <<ON, OFF, ON, ON, ON, OFF, ON, OFF, ON, ON, ON>>,
     << >>}

OffRunInit ==
    /\ ProviderIdle
    /\ RtsmIdle
    /\ RxIdle
    /\ MultiIdle
    /\ NewIdle
    /\ ranges = None
    /\ str = << >>
    /\ enc = EncoderTx_new
    /\ \E p \in OffRunPrefixes : buffer = p \o Times(MaxOff, OFF)
    /\ closed = TRUE
    /\ DecoderInit

OffRunNext == DecoderStep

SpecOffRun == OffRunInit /\ [][OffRunNext]_vars

\* The number of OFF units that end at position i of the units read.
OffRunLen(units, i) ==
    LET start == CHOOSE j \in 0..i :
                    /\ j = 0 \/ units[j] = ON
                    /\ \A k \in (j + 1)..i : units[k] = OFF
    IN  i - start

\* What decoding the pending letter returns.
LetterResult(letter) ==
    LET r == decode_char(letter)
    IN  IF r[2] = None THEN <<"err", "letter", letter>> ELSE <<"char", Unwrap(r[2])>>

----------------------------------------------------------------------------
(* Claims about the decoder after an error (specification SpecDecoder) *)

\* C12: after DecoderRx has returned any Morse error (a Signal error for an
\* ON run longer than three units or for a finished ON run of a length other
\* than 1 and 3, a Letter error for a sequence in no row) its letter buffer
\* is empty, so no dot or dash received before the error contributes to a
\* character decoded after it.
C12_LetterClearedOnError ==
    (IsSome(dec_ev) /\ Unwrap(dec_ev).ret[1] = "err") => current_letter = << >>

\* The same statement for the errors that go through reset_with_signal_error
\* and reset_with_letter_error: an ON run of four units, a letter in no row.
C12_LetterClearedOnReset ==
    (IsSome(dec_ev) /\ Unwrap(dec_ev).ret[1] = "err"
        /\ ~(FinishedOnRun(Unwrap(dec_ev), 2))) => current_letter = << >>

\* a dot, then an ON run of two units reported as a Signal error, then a
\* pause of three units: the dot received before the error was decoded as E
C12_DotSurvivesError ==
    /\ buffer = <<ON, OFF, ON, ON, OFF, OFF, OFF>>
    /\ Len(dec_errs) = 1
    /\ IsSignalError(dec_errs[1], <<ON, ON>>)
    /\ chars = <<"E">>

----------------------------------------------------------------------------
(* The provider worker: EncoderTx -> [RtsmTx] -> ChunksTx -> Interval ->
   CancellableTx -> CustomTx.  The Interval only sleeps and is not modelled. *)

\* Instances of a counter are drawn from 1..MaxInst.
MaxInst == 5

\* Ticks a worker commits while its token is clear.
MaxTicks == 4

\* The strings a StringsProvider returns: empty (RandomJokeProvider on a
\* failed fetch), whitespace only, unknown to the dialect, and letters.
WorkerStrings == {<< >>, <<" ">>, <<"#">>, <<"e">>, <<"a">>}

WorkerKinds == {"WorkerBuilder", "worker_thread_main"}

\* coder_ranges with the ranges of the instances side by side, none shared
coder_ranges_unshared(i) ==
    LET off == 10 + 10 * i
        on == 60 + 10 * i
    IN  [off |-> Range(off, off + 10), on |-> Range(on, on + 10)]

\* WorkerBuilder::main: the ranges of the coder of instance i (from 0)
coder_ranges(i) ==
    LET off == 10 + 10 * (i % 4)
        on == 60 + 10 * (i % 4)
    IN  [off |-> Range(off, off + 10), on |-> Range(on, on + 10)]

\* worker_thread_main: the ranges of its single RtsmTx
worker_thread_ranges == [off |-> Range(10, 40), on |-> Range(60, 90)]

\* The coders a worker starts with.
rtsm_coders_new(kind, n) ==
    IF kind = "WorkerBuilder"
    THEN [i \in 1..n |-> RtsmTx_new(coder_ranges(i - 1))]
    ELSE <<RtsmTx_new(worker_thread_ranges)>>

\* The CustomTx of WorkerBuilder::main: inside one update of the shared data,
\* each signal goes through the coder of its instance and the value is set.
handler(coders, signals) ==
    LET e(i) == encode(coders[i], coder_ranges(i - 1), signals[i])
    IN  [coders |-> [i \in 1..Len(coders) |-> e(i).tx],
         column |-> [i \in 1..Len(coders) |-> e(i).value]]

\* ChunksTx::send: [buffer |-> new buffer, out |-> the chunk sent down, if any]
ChunksTx_send_front(chunk, size, value) ==
    LET b == <<value>> \o chunk
    IN  IF Len(b) = size THEN [buffer |-> << >>, out |-> Some(b)]
        ELSE [buffer |-> b, out |-> None]

ChunksTx_send_keep(chunk, size, value) ==
    LET b == Append(chunk, value)
    IN  IF Len(b) = size THEN [buffer |-> b, out |-> Some(b)]
        ELSE [buffer |-> b, out |-> None]

ChunksTx_send(chunk, size, value) ==
    LET b == Append(chunk, value)
    IN  IF Len(b) = size THEN [buffer |-> << >>, out |-> Some(b)]
        ELSE [buffer |-> b, out |-> None]

\* CancellableTx::send: the result and what the wrapped sink receives
CancellableTx_send_through(token, value) ==
    [result |-> "Ok", forwarded |-> Some(value)]

CancellableTx_send(token, value) ==
    IF token THEN [result |-> "CancelledError", forwarded |-> None]
    ELSE [result |-> "Ok", forwarded |-> Some(value)]

WorkerInit ==
    /\ RtsmIdle /\ RxIdle /\ MultiIdle /\ NewIdle /\ MorseIdle
    /\ ranges = None
    /\ w_kind \in WorkerKinds
    /\ w_n \in 1..MaxInst
    /\ cancellation_token = FALSE
    /\ w_pc = "provide"
    /\ w_chars = << >>
    /\ w_units = << >>
    /\ w_enc = EncoderTx_new
    /\ w_chunk = << >>
    /\ rtsm_coders = rtsm_coders_new(w_kind, w_n)
    /\ column = [i \in 1..w_n |-> 0]
    /\ cols = << >>
    /\ bits = << >>
    /\ w_ev = None
    /\ ConsumerIdle
    /\ AppIdle
    /\ ExtraIdle

\* Where the loop goes on once `units` and `chars` are what is left.
next_pc(units, chs) ==
    IF units # << >> THEN "units" ELSE IF chs # << >> THEN "send" ELSE "provide"

\* strings_provider.provide(): the string, chained with one space
Provide(string) ==
    /\ w_pc = "provide"
    /\ w_chars' = string \o <<" ">>
    /\ w_pc' = "send"
    /\ UNCHANGED <<w_kind, w_n, cancellation_token, w_units, w_enc, w_chunk,
                   rtsm_coders, column, cols, bits, w_ev>>
    /\ UNCHANGED consumerVars
    /\ UNCHANGED notWorker

\* RegKeyStringsProvider::provide unwraps a failed fetch: the thread panics
ProvidePanics ==
    /\ w_pc = "provide"
    /\ w_pc' = "panicked"
    /\ UNCHANGED <<w_kind, w_n, cancellation_token, w_chars, w_units, w_enc,
                   w_chunk, rtsm_coders, column, cols, bits, w_ev>>
    /\ UNCHANGED consumerVars
    /\ UNCHANGED notWorker

\* tx.send(char): the encoder turns the character into the units to send down
SendChar ==
    /\ w_pc = "send"
    /\ LET e == send_char([pause_duration |-> w_enc.pause_duration,
                           pause_written |-> w_enc.pause_written,
                           tx |-> << >>], Head(w_chars))
       IN  /\ w_enc' = [pause_duration |-> e.pause_duration,
                        pause_written |-> e.pause_written]
           /\ w_units' = e.tx
           /\ w_chars' = Tail(w_chars)
           /\ w_pc' = next_pc(e.tx, Tail(w_chars))
    /\ UNCHANGED <<w_kind, w_n, cancellation_token, w_chunk, rtsm_coders,
                   column, cols, bits, w_ev>>
    /\ UNCHANGED consumerVars
    /\ UNCHANGED notWorker

\* One unit goes down the pipeline.  A full chunk reaches CancellableTx: with
\* the token set the error breaks the outer loop, otherwise the sink stores
\* the column of this tick.
SendUnit ==
    /\ w_pc = "units"
    /\ LET u == Head(w_units)
           legacy == w_kind = "worker_thread_main"
           r == encode(rtsm_coders[1], worker_thread_ranges, u)
           ch == ChunksTx_send(w_chunk, w_n, IF legacy THEN r.value ELSE u)
       IN  /\ bits' = Append(bits, u)
           /\ w_units' = Tail(w_units)
           /\ w_chunk' = ch.buffer
           /\ IF ch.out = None
              THEN /\ rtsm_coders' = IF legacy THEN <<r.tx>> ELSE rtsm_coders
                   /\ w_pc' = next_pc(Tail(w_units), w_chars)
                   /\ UNCHANGED <<column, cols, w_ev, polled, missed>>
              ELSE LET c == CancellableTx_send(cancellation_token, Unwrap(ch.out))
                       h == handler(rtsm_coders, Unwrap(c.forwarded))
                   IN  /\ w_ev' = Some([observed  |-> cancellation_token,
                                        value     |-> Unwrap(ch.out),
                                        result    |-> c.result,
                                        forwarded |-> c.forwarded,
                                        before    |-> column])
                       /\ IF c.forwarded = None
                          THEN /\ w_pc' = IF c.result = "Ok"
                                          THEN next_pc(Tail(w_units), w_chars)
                                          ELSE "exited"
                               /\ rtsm_coders' = IF legacy THEN <<r.tx>> ELSE rtsm_coders
                               /\ UNCHANGED <<column, cols, polled, missed>>
                          ELSE /\ Len(cols) < MaxTicks
                               /\ w_pc' = next_pc(Tail(w_units), w_chars)
                               /\ rtsm_coders' = IF legacy THEN <<r.tx>> ELSE h.coders
                               /\ column' = IF legacy THEN Unwrap(c.forwarded) ELSE h.column
                               /\ cols' = Append(cols, column')
                               /\ polled' = FALSE
                               /\ missed' = (missed \/ (cols # << >> /\ ~polled))
    /\ UNCHANGED <<w_kind, w_n, cancellation_token, w_chars, w_enc, rx_cores, rx_bits,
                   rx_poll>>
    /\ UNCHANGED notWorker

\* WorkerThread::cancel
Cancel ==
    /\ ~cancellation_token
    /\ cancellation_token' = TRUE
    /\ UNCHANGED <<w_kind, w_n, w_pc, w_chars, w_units, w_enc, w_chunk,
                   rtsm_coders, column, cols, bits, w_ev>>
    /\ UNCHANGED consumerVars
    /\ UNCHANGED notWorker

\* The instance ids of App::start: unique ids 0, 1, ... in the order of the column
unique_id(i) == i - 1

\* InstanceId::cmp of two instances with valid unique ids
InstanceId_cmp(left, right) ==
    IF left < right THEN "Less" ELSE IF left = right THEN "Equal" ELSE "Greater"

\* vec.sort_by(|left, right| left.0.cmp(&right.0)): a stable sort
RECURSIVE sort_insert(_, _)
sort_insert(sorted, pair) ==
    IF sorted = << >> THEN <<pair>>
    ELSE IF InstanceId_cmp(pair[1], Head(sorted)[1]) = "Less" THEN <<pair>> \o sorted
    ELSE <<Head(sorted)>> \o sort_insert(Tail(sorted), pair)

RECURSIVE sort_by(_)
sort_by(pairs) ==
    IF pairs = << >> THEN << >>
    ELSE sort_insert(sort_by(SubSeq(pairs, 1, Len(pairs) - 1)), pairs[Len(pairs)])

\* .map(|pair| pair.1)
pair_values(pairs) == [k \in 1..Len(pairs) |-> pairs[k][2]]

\* spawn_decoder: every channel is decoded with the same ranges
consumer_ranges == [off |-> Range(10, 50), on |-> Range(60, 100)]

\* The DataPairs of one poll, in the order of the instances or reversed.
DataPairs(col, reversed) ==
    [k \in 1..Len(col) |->
        LET i == IF reversed THEN Len(col) + 1 - k ELSE k
        IN  <<unique_id(i), col[i]>>]

\* One poll of the counter goes through the consumer's decoder: sorted by
\* instance id, decoded by RtsmMultiRx, flattened.  An error is dropped by the
\* loop of spawn_decoder.
Poll(reversed) ==
    /\ w_pc # "panicked"
    /\ LET vec == pair_values(sort_by(DataPairs(column, reversed)))
           dv == decode_vec(rx_cores, consumer_ranges, vec, 1, << >>)
           res == IF IsSome(dv.err) THEN Unwrap(dv.err) ELSE transform_opt_vec(dv.opt)
       IN  /\ rx_cores' = dv.rtsm
           /\ rx_bits' = IF res[1] = "vec" THEN rx_bits \o res[2] ELSE rx_bits
           /\ rx_poll' = Some([vec |-> vec,
                               prev |-> IF rx_poll = None THEN None
                                        ELSE Some(Unwrap(rx_poll).vec),
                               res |-> res[1]])
    /\ polled' = TRUE
    /\ UNCHANGED missed
    /\ UNCHANGED workerVars
    /\ UNCHANGED notWorker

WorkerStep ==
    \/ \E string \in WorkerStrings : Provide(string)
    \/ ProvidePanics
    \/ SendChar
    \/ SendUnit

WorkerNext ==
    \/ WorkerStep
    \/ Cancel
    \/ \E reversed \in BOOLEAN : Poll(reversed)

SpecWorker == WorkerInit /\ [][WorkerNext]_vars

\* The worker is a thread of its own: the scheduler keeps running it.
SpecWorkerFair == SpecWorker /\ WF_vars(WorkerStep)

----------------------------------------------------------------------------
(* Claims about cancelling a worker *)

\* The worker thread has ended, so that join returns.
WorkerEnded == w_pc \in {"exited", "panicked"}

\* C13: once the cancellation token of a worker is set, the worker loop
\* eventually ends, whatever strings the provider returns and whatever the
\* number of instances.
C13_CancelledWorkerExits == cancellation_token ~> WorkerEnded

\* C13: the token is set and the worker is about to ask for a string with
\* the word pause already written in full: a space (all that an empty or
\* blank string sends) produces no unit, so no send reaches CancellableTx.
C13_SpinningOnBlankStrings ==
    /\ cancellation_token
    /\ w_pc = "provide"
    /\ w_enc.pause_duration = 7
    /\ w_enc.pause_written = 7
    /\ send_char([pause_duration |-> w_enc.pause_duration,
                  pause_written |-> w_enc.pause_written,
                  tx |-> << >>], " ").tx = << >>
    /\ ~WorkerEnded

\* C15: a send that reaches CancellableTx with the token set returns
\* CancelledError, hands nothing to the wrapped sink and leaves the column of
\* the worker as it was; with the token clear the chunk is handed on unchanged.
C15_Cancellable ==
    IsSome(w_ev) =>
        LET e == Unwrap(w_ev)
        IN  /\ e.observed =>
                /\ e.result = "CancelledError"
                /\ e.forwarded = None
                /\ column = e.before
                /\ w_pc = "exited"
            /\ ~e.observed =>
                /\ e.result = "Ok"
                /\ e.forwarded = Some(e.value)

\* C15: a worker that committed ticks, then had a full chunk refused
C15_Witness ==
    /\ IsSome(w_ev)
    /\ Unwrap(w_ev).observed
    /\ Len(Unwrap(w_ev).value) = w_n
    /\ w_n > 1
    /\ Len(cols) > 1
    /\ column = cols[Len(cols)]
    /\ w_pc = "exited"

----------------------------------------------------------------------------
(* Claims about the integers a worker writes *)

\* Every slot holds different integers on every two consecutive ticks.
SlotsChange ==
    \A t \in 1..(Len(cols) - 1) : \A i \in 1..w_n : cols[t][i] # cols[t + 1][i]

\* C20: in both worker variants, for every number of instances and every bit
\* stream, the integers written to a slot on two consecutive ticks differ.
C20_SlotChanges == SlotsChange

\* The same for the variant that keeps one RtsmTx per instance only.
C20_BuilderSlotChanges == w_kind = "WorkerBuilder" => SlotsChange

\* C20: worker_thread_main with two instances sending "a" (ON, OFF, ON, ...):
\* the single RtsmTx emits 60, 10, 60, 61, so instance 0 holds 60 twice.
C20_SlotRepeats ==
    /\ w_kind = "worker_thread_main"
    /\ w_n = 2
    /\ Len(cols) = 2
    /\ bits = <<ON, OFF, ON, ON>>
    /\ cols = <<<<60, 10>>, <<60, 61>>>>

----------------------------------------------------------------------------
(* Claims about the channel from a worker to the consumer *)

\* The number of ticks whose column a poll has read.
TicksRead == IF polled \/ cols = << >> THEN Len(cols) ELSE Len(cols) - 1

\* C19: in WorkerBuilder::main with n instances, bit number k (from 0) of the
\* Morse bit stream is encoded in the column of instance k mod n at tick
\* k div n, and a consumer that read every tick at least once has decoded
\* exactly the bits of the ticks it read, in the order they were sent.
C19_Channel ==
    w_kind = "WorkerBuilder" =>
        /\ \A t \in 1..Len(cols) : \A i \in 1..w_n :
              signal_for_value(coder_ranges(i - 1), cols[t][i])
                  = Some(bits[(t - 1) * w_n + i])
        /\ ~missed => rx_bits = SubSeq(bits, 1, w_n * TicksRead)

\* C19: five instances (the ranges of instance 4 are those of instance 0),
\* every tick read, the last one more than once, both signals sent
C19_Witness ==
    /\ w_kind = "WorkerBuilder"
    /\ w_n = MaxInst
    /\ Len(cols) = MaxTicks
    /\ polled
    /\ ~missed
    /\ Len(rx_bits) = w_n * MaxTicks
    /\ \E k \in 1..Len(rx_bits) : rx_bits[k] = ON
    /\ \E k \in 1..Len(rx_bits) : rx_bits[k] = OFF

----------------------------------------------------------------------------
(* App: the workers that update the SharedObjectData, the provider that
   serves polls from it, and App::stop.  A value stored by a worker is the
   number of the tick it belongs to (0 is the value App::start stores). *)

\* Instances of each counter in the App.
AppInst == 2

\* Updates of one worker while its token is clear.
AppTicks == 2

\* The counters of App::start, each with a worker: the worker of CUSTOM has
\* the RegKeyStringsProvider.
AppCounters == <<"SOS", "MOTD", "CUSTOM">>

Counters == {AppCounters[k] : k \in 1..Len(AppCounters)}

AppInstances == 1..AppInst

\* ObjectData::new: no pair has a value
ObjectData_new == [key \in {} |-> 0]

\* ObjectData::get
ObjectData_get(d, counter, instance) ==
    IF <<counter, instance>> \in DOMAIN d THEN Some(d[<<counter, instance>>]) ELSE None

\* ObjectData::set
ObjectData_set(d, counter, instance, value) ==
    [key \in DOMAIN d \cup {<<counter, instance>>} |->
        IF key = <<counter, instance>> THEN value ELSE d[key]]

\* The ObjectData after App::start: every pair holds Dword(0).
StartData == [key \in Counters \X AppInstances |-> 0]

\* Mutex::lock returns when no thread holds the lock.
can_lock_any(m) == TRUE

can_lock(m) == m = None

\* WorkerThread::cancel
WorkerThread_cancel_nothing(t, counter) == t

WorkerThread_cancel(t, counter) == [t EXCEPT ![counter] = TRUE]

\* MorseCountersProvider::data: the value in the cache, Dword(0) without one
MorseCountersProvider_data_shared(c, shared, counter, instance) ==
    LET v == ObjectData_get(shared, counter, instance)
    IN  IF IsSome(v) THEN Unwrap(v) ELSE 0

MorseCountersProvider_data(c, shared, counter, instance) ==
    LET v == ObjectData_get(c, counter, instance)
    IN  IF IsSome(v) THEN Unwrap(v) ELSE 0

\* PERF_NO_UNIQUE_ID: the instance of an object without instances
perf_no_instances == 0 - 1

\* The state after App::start and MorseCountersProvider::new.
AppInit ==
    /\ RtsmIdle /\ RxIdle /\ MultiIdle /\ NewIdle /\ MorseIdle
    /\ WorkerIdle /\ ConsumerIdle /\ ExtraIdle
    /\ ranges = None
    /\ running = TRUE
    /\ workers = AppCounters
    /\ tokens = [c \in Counters |-> FALSE]
    /\ t_pc = [c \in Counters |-> "idle"]
    /\ t_new = [c \in Counters |-> None]
    /\ t_i = [c \in Counters |-> 0]
    /\ ticks = [c \in Counters |-> 0]
    /\ mutex = None
    /\ data = StartData
    /\ wrapped \in BOOLEAN
    /\ p_pc = "idle"
    /\ p_instances = None
    /\ cache = ObjectData_new
    /\ p_out = << >>
    /\ at_poll = StartData
    /\ s_pc = "idle"
    /\ s_k = 0
    /\ join_log = << >>

\* A full chunk of worker c reaches its CancellableTx: with the token set the
\* worker exits, otherwise the sink calls update(), which locks and clones.
TickBegin(c) ==
    /\ t_pc[c] = "idle"
    /\ LET r == CancellableTx_send(tokens[c], ticks[c] + 1)
       IN  IF r.forwarded = None
           THEN /\ t_pc' = [t_pc EXCEPT ![c] = "exited"]
                /\ UNCHANGED <<mutex, t_new, t_i>>
           ELSE /\ ticks[c] < AppTicks
                /\ can_lock(mutex)
                /\ mutex' = Some(c)
                /\ t_new' = [t_new EXCEPT ![c] = Some(data)]
                /\ t_i' = [t_i EXCEPT ![c] = 1]
                /\ t_pc' = [t_pc EXCEPT ![c] = "update"]
    /\ UNCHANGED <<running, workers, tokens, ticks, data, wrapped, p_pc,
                   p_instances, cache, p_out, at_poll, s_pc, s_k, join_log>>
    /\ UNCHANGED notApp

\* The closure of the sink: data.set for the next instance
TickSet(c) ==
    /\ t_pc[c] = "update"
    /\ t_i[c] <= AppInst
    /\ t_new' = [t_new EXCEPT ![c] =
                    Some(ObjectData_set(Unwrap(t_new[c]), c, t_i[c], ticks[c] + 1))]
    /\ t_i' = [t_i EXCEPT ![c] = @ + 1]
    /\ UNCHANGED <<running, workers, tokens, t_pc, ticks, mutex, data, wrapped,
                   p_pc, p_instances, cache, p_out, at_poll, s_pc, s_k, join_log>>
    /\ UNCHANGED notApp

\* update() stores what the closure returned and unlocks
TickStore(c) ==
    /\ t_pc[c] = "update"
    /\ t_i[c] > AppInst
    /\ data' = Unwrap(t_new[c])
    /\ mutex' = None
    /\ ticks' = [ticks EXCEPT ![c] = @ + 1]
    /\ t_new' = [t_new EXCEPT ![c] = None]
    /\ t_i' = [t_i EXCEPT ![c] = 0]
    /\ t_pc' = [t_pc EXCEPT ![c] = "idle"]
    /\ UNCHANGED <<running, workers, tokens, wrapped, p_pc, p_instances, cache,
                   p_out, at_poll, s_pc, s_k, join_log>>
    /\ UNCHANGED notApp

\* RegKeyStringsProvider::provide unwraps a failed fetch: the worker panics
WorkerPanics(c) ==
    /\ c = "CUSTOM"
    /\ t_pc[c] = "idle"
    /\ t_pc' = [t_pc EXCEPT ![c] = "panicked"]
    /\ UNCHANGED <<running, workers, tokens, t_new, t_i, ticks, mutex, data,
                   wrapped, p_pc, p_instances, cache, p_out, at_poll, s_pc, s_k,
                   join_log>>
    /\ UNCHANGED notApp

\* PerfProvider::collect calls self.prepare(): MorseCountersProvider::prepare
\* reads the shared data into the cache and copies the instances of the App;
\* the prepare of a CachingPerfProvider is the empty one of the trait.
PollPrepare ==
    /\ p_pc = "idle"
    /\ IF wrapped
       THEN UNCHANGED <<cache, p_instances>>
       ELSE /\ can_lock(mutex)
            /\ cache' = data
            /\ p_instances' = Some(AppInst)
    /\ at_poll' = data
    /\ p_out' = << >>
    /\ p_pc' = "serialize"
    /\ UNCHANGED <<running, workers, tokens, t_pc, t_new, t_i, ticks, mutex, data,
                   wrapped, s_pc, s_k, join_log>>
    /\ UNCHANGED notApp

\* The instances collect_object writes a block for.
Blocks(instances) ==
    IF instances = None THEN <<perf_no_instances>>
    ELSE [i \in 1..Unwrap(instances) |-> i]

\* collect_object / write_block: self.data() for the next counter of the
\* next block
PollData ==
    /\ p_pc = "serialize"
    /\ LET blocks == Blocks(p_instances)
           k == Len(p_out)
           instance == blocks[(k \div Len(AppCounters)) + 1]
           counter == AppCounters[(k % Len(AppCounters)) + 1]
           value == MorseCountersProvider_data(cache, data, counter, instance)
       IN  /\ p_out' = Append(p_out, [instance |-> instance, counter |-> counter,
                                      value |-> value])
           /\ p_pc' = IF k + 1 = Len(blocks) * Len(AppCounters)
                      THEN "idle" ELSE "serialize"
    /\ UNCHANGED <<running, workers, tokens, t_pc, t_new, t_i, ticks, mutex, data,
                   wrapped, p_instances, cache, at_poll, s_pc, s_k, join_log>>
    /\ UNCHANGED notApp

\* App::stop: running = false
StopBegin ==
    /\ s_pc = "idle"
    /\ running' = FALSE
    /\ s_pc' = "cancel"
    /\ s_k' = 1
    /\ UNCHANGED <<workers, tokens, t_pc, t_new, t_i, ticks, mutex, data, wrapped,
                   p_pc, p_instances, cache, p_out, at_poll, join_log>>
    /\ UNCHANGED notApp

\* App::stop: worker.cancel() for the next worker of the list
StopCancel ==
    /\ s_pc = "cancel"
    /\ tokens' = WorkerThread_cancel(tokens, workers[s_k])
    /\ s_k' = s_k + 1
    /\ s_pc' = IF s_k = Len(workers) THEN "join" ELSE "cancel"
    /\ UNCHANGED <<running, workers, t_pc, t_new, t_i, ticks, mutex, data, wrapped,
                   p_pc, p_instances, cache, p_out, at_poll, join_log>>
    /\ UNCHANGED notApp

\* App::stop: the drain yields the next worker and join() cancels it
StopJoinCall ==
    /\ s_pc = "join"
    /\ workers # << >>
    /\ tokens' = WorkerThread_cancel(tokens, Head(workers))
    /\ s_pc' = "joining"
    /\ UNCHANGED <<running, workers, t_pc, t_new, t_i, ticks, mutex, data, wrapped,
                   p_pc, p_instances, cache, p_out, at_poll, s_k, join_log>>
    /\ UNCHANGED notApp

\* thread.join() returns once the thread has ended: Err for a panic, which
\* App::stop logs and ignores
StopJoinReturn ==
    /\ s_pc = "joining"
    /\ t_pc[Head(workers)] \in {"exited", "panicked"}
    /\ join_log' = Append(join_log,
            [worker |-> Head(workers),
             result |-> IF t_pc[Head(workers)] = "panicked" THEN "Err" ELSE "Ok",
             cancelled |-> {c \in Counters : tokens[c]}])
    /\ workers' = Tail(workers)
    /\ s_pc' = IF Tail(workers) = << >> THEN "done" ELSE "join"
    /\ UNCHANGED <<running, tokens, t_pc, t_new, t_i, ticks, mutex, data, wrapped,
                   p_pc, p_instances, cache, p_out, at_poll, s_k>>
    /\ UNCHANGED notApp

AppNext ==
    \/ \E c \in Counters : TickBegin(c)
    \/ \E c \in Counters : TickSet(c)
    \/ \E c \in Counters : TickStore(c)
    \/ \E c \in Counters : WorkerPanics(c)
    \/ PollPrepare
    \/ PollData
    \/ StopBegin
    \/ StopCancel
    \/ StopJoinCall
    \/ StopJoinReturn

SpecApp == AppInit /\ [][AppNext]_vars

----------------------------------------------------------------------------
(* Claims about App::stop *)

\* The workers whose join has returned, in order.
Joined == [k \in 1..Len(join_log) |-> join_log[k].worker]

\* C14: App::stop has set the token of every worker before it joins any, it
\* joins no worker twice, and when it has returned every worker was joined
\* once, the list of workers is empty and running is false, whether or not a
\* join returned an error.
C14_Stop ==
    /\ s_pc \in {"join", "joining", "done"} => \A c \in Counters : tokens[c]
    /\ \A k \in 1..Len(join_log) : join_log[k].cancelled = Counters
    /\ \A j, k \in 1..Len(join_log) : Joined[j] = Joined[k] => j = k
    /\ s_pc = "done" =>
          /\ Joined = AppCounters
          /\ workers = << >>
          /\ ~running

\* C14: stop returned after workers had stored updates; the join of the
\* panicked worker returned an error, the others ended by cancellation
C14_Witness ==
    /\ s_pc = "done"
    /\ \E k \in 1..Len(join_log) : join_log[k].result = "Err"
    /\ \E k \in 1..Len(join_log) : join_log[k].result = "Ok"
    /\ t_pc["SOS"] = "exited"
    /\ ticks["SOS"] > 0

----------------------------------------------------------------------------
(* Claims about the SharedObjectData *)

\* The value MorseCountersProvider::data returns from the ObjectData d.
ValueIn(d, counter, instance) ==
    LET v == ObjectData_get(d, counter, instance)
    IN  IF IsSome(v) THEN Unwrap(v) ELSE 0

\* C16: what a poll serializes is the ObjectData of one instant: the cache is
\* the shared data as it was when the poll took it (the ObjectData as created,
\* for a provider whose prepare is not called), every value written comes from
\* that cache, and the values of the instances of a counter are of one tick.
C16_Snapshot ==
    p_out # << >> =>
        /\ cache = IF wrapped THEN ObjectData_new ELSE at_poll
        /\ \A k \in 1..Len(p_out) :
              p_out[k].value = ValueIn(cache, p_out[k].counter, p_out[k].instance)
        /\ \A j, k \in 1..Len(p_out) :
              p_out[j].counter = p_out[k].counter => p_out[j].value = p_out[k].value

\* C16: a poll that was serialized while a worker stored its next tick
C16_Witness ==
    /\ ~wrapped
    /\ p_pc = "idle"
    /\ Len(p_out) = AppInst * Len(AppCounters)
    /\ at_poll[<<"SOS", 1>>] = 1
    /\ data[<<"SOS", 1>>] = 2
    /\ t_pc["MOTD"] = "update"

\* C17: every poll, also of a provider inside a CachingPerfProvider, returns
\* for every counter the value of the last update stored before the poll.
C17_FreshSnapshot ==
    p_out # << >> =>
        \A k \in 1..Len(p_out) : \A i \in AppInstances :
            p_out[k].value = at_poll[<<p_out[k].counter, i>>]

\* The same for a provider that is not wrapped only.
C17_UnwrappedFresh == ~wrapped => C17_FreshSnapshot

\* C17: a poll of the wrapped provider after every worker stored AppTicks
\* updates: one block without instance, every value 0
C17_StalePoll ==
    /\ wrapped
    /\ p_pc = "idle"
    /\ Len(p_out) = Len(AppCounters)
    /\ \A c \in Counters : \A i \in AppInstances : at_poll[<<c, i>>] = AppTicks
    /\ \A k \in 1..Len(p_out) :
          p_out[k].value = 0 /\ p_out[k].instance = perf_no_instances
    /\ cache = ObjectData_new

\* C18: every slot holds the value of the last update its worker completed,
\* whatever the other workers did in between.
C18_NoLostUpdate ==
    \A c \in Counters : \A i \in AppInstances :
        ObjectData_get(data, c, i) = Some(ticks[c])

\* C18: all workers have stored updates and one is inside update() while
\* another waits for the lock
C18_Witness ==
    /\ \A c \in Counters : ticks[c] >= 1
    /\ ticks["SOS"] = AppTicks
    /\ mutex = Some("CUSTOM")
    /\ t_i["CUSTOM"] = 2
    /\ t_pc["MOTD"] = "idle"
    /\ ticks["MOTD"] < AppTicks

----------------------------------------------------------------------------
(* Claims about the ranges of the instances *)

\* C21: any two different instances of a worker have different pairs of
\* RTSM ranges.
C21_DistinctRanges ==
    w_kind = "WorkerBuilder" =>
        \A i, j \in 0..(w_n - 1) : i # j => coder_ranges(i) # coder_ranges(j)

\* The same for at most four instances.
C21_DistinctUpToFour ==
    (w_kind = "WorkerBuilder" /\ w_n <= 4) =>
        \A i, j \in 0..(w_n - 1) : i # j => coder_ranges(i) # coder_ranges(j)

\* C21: five instances: instance 4 has the ranges of instance 0, and after a
\* tick that sent the same signal to both, their columns hold the same integer
C21_SharedRanges ==
    /\ w_kind = "WorkerBuilder"
    /\ w_n = 5
    /\ coder_ranges(4) = coder_ranges(0)
    /\ Len(cols) = 1
    /\ cols[1][1] = cols[1][5]
    /\ contains(coder_ranges(0).off, cols[1][5])

----------------------------------------------------------------------------
(* The decoder worker of the consumer: queue -> map (sort by instance id)
   -> RtsmMultiRx -> flatten -> DecoderRx -> the loop of spawn_decoder.  The
   samples are the ticks of a worker with two instances, re-reads of a tick,
   torn reads of two ticks, and integers outside every range. *)

\* Sample vectors sent that are not the next tick of the stream.
MaxNoise == 2

\* The instances of the counter that is decoded.
QueueInstances == <<0, 1>>

\* Bit streams of the provider: one that starts in the middle of a pause, a
\* dot followed by an ON run of two units, an ON run of four units, and a
\* letter the dialect does not have ("..--") followed by an E.
QueueStreams ==
    { <<OFF, OFF, OFF, OFF>>,
      <<ON, OFF, ON, ON, OFF, OFF, OFF, OFF>>,
      <<ON, OFF, ON, ON, ON, ON, OFF, OFF>>,
      <<ON, OFF, ON, OFF, ON, ON, ON, OFF, ON, ON, ON, OFF, OFF, OFF,
        ON, OFF, OFF, OFF>> }

\* The coders of the provider's worker after t ticks of the stream.
RECURSIVE coders_after(_, _)
coders_after(stream, t) ==
    LET n == Len(QueueInstances)
    IN  IF t = 0 THEN rtsm_coders_new("WorkerBuilder", n)
        ELSE handler(coders_after(stream, t - 1),
                     SubSeq(stream, n * (t - 1) + 1, n * t)).coders

\* The column the worker stores at tick t of the stream.
TickVector(stream, t) ==
    LET n == Len(QueueInstances)
    IN  handler(coders_after(stream, t - 1),
                SubSeq(stream, n * (t - 1) + 1, n * t)).column

QueueInit ==
    /\ RtsmIdle /\ RxIdle /\ MultiIdle /\ NewIdle
    /\ WorkerIdle /\ AppIdle /\ CombIdle /\ PerfIdle /\ LateIdle
    /\ ranges = None
    /\ str = << >>
    /\ enc = None
    /\ buffer = << >>
    /\ closed = FALSE
    /\ DecoderInit
    /\ rx_cores = << >>
    /\ rx_bits = << >>
    /\ polled = FALSE
    /\ missed = FALSE
    /\ rx_poll = None
    /\ rx_queue = << >>
    /\ rx_sent = << >>
    /\ rx_stream \in QueueStreams
    /\ rx_tick = 0

\* The sample vectors a poll can push next.
NextSamples ==
    LET n == Len(QueueInstances)
        more == n * (rx_tick + 1) <= Len(rx_stream)
        noisy == Len(rx_sent) - rx_tick < MaxNoise
    IN  (IF more THEN {[kind |-> "tick", vec |-> TickVector(rx_stream, rx_tick + 1)]}
         ELSE {})
        \cup (IF noisy /\ rx_tick > 0
              THEN {[kind |-> "reread", vec |-> TickVector(rx_stream, rx_tick)]}
              ELSE {})
        \cup (IF noisy /\ rx_tick > 0 /\ more
              THEN {[kind |-> "torn",
                     vec |-> <<TickVector(rx_stream, rx_tick + 1)[1],
                               TickVector(rx_stream, rx_tick)[2]>>]}
              ELSE {})
        \cup (IF noisy THEN {[kind |-> "junk", vec |-> <<0, 0>>]} ELSE {})

\* decoder.tx.send of the samples of one poll
QueueSend(sample) ==
    /\ ~closed
    /\ sample \in NextSamples
    /\ rx_queue' = Append(rx_queue, sample.vec)
    /\ rx_sent' = Append(rx_sent, sample.vec)
    /\ rx_tick' = IF sample.kind = "tick" THEN rx_tick + 1 ELSE rx_tick
    /\ UNCHANGED <<rx_stream, rx_cores, buffer, closed>>
    /\ UNCHANGED decVars
    /\ UNCHANGED notQueue

\* Drop for AppInner: drop(tx)
QueueDrop ==
    /\ ~closed
    /\ closed' = TRUE
    /\ UNCHANGED <<rx_cores, buffer>>
    /\ UNCHANGED queueVars
    /\ UNCHANGED decVars
    /\ UNCHANGED notQueue

\* ReceiverRx::recv: the next vector, Ok(None) once the sender hung up and
\* the queue is empty; it blocks otherwise
ReceiverRx_can_recv == rx_queue # << >> \/ closed

\* One step of decoder.recv() in the worker's loop: DecoderRx takes the next
\* signal flatten still holds; without one, RtsmMultiRx takes the next
\* vector of the queue, and its error goes up to the loop, which drops it;
\* at the end of the queue DecoderRx sees Ok(None).
QueueRecv ==
    /\ dec_state = "running"
    /\ rd < Len(buffer) \/ ReceiverRx_can_recv
    /\ IF rd = Len(buffer) /\ rx_queue # << >>
       THEN LET vec == pair_values(sort_by(DataPairs(Head(rx_queue), FALSE)))
                dv == decode_vec(rx_cores, consumer_ranges, vec, 1, << >>)
                res == IF IsSome(dv.err) THEN Unwrap(dv.err)
                       ELSE transform_opt_vec(dv.opt)
            IN  /\ rx_queue' = Tail(rx_queue)
                /\ rx_cores' = dv.rtsm
                /\ buffer' = IF res[1] = "vec" THEN buffer \o res[2] ELSE buffer
                /\ dec_errs' = IF res[1] \in {"err", "partial"}
                               THEN Append(dec_errs, res) ELSE dec_errs
                /\ UNCHANGED <<rd, current_group, current_letter, chars, dec_state,
                               dec_ev>>
       ELSE LET item == inner_recv
                r == read_char_iteration(
                         [current_group |-> current_group,
                          current_letter |-> current_letter], item)
            IN  /\ rd' = IF IsSome(item) THEN rd + 1 ELSE rd
                /\ current_group' = r.d.current_group
                /\ current_letter' = r.d.current_letter
                /\ chars' = IF r.ret[1] = "char" THEN Append(chars, r.ret[2]) ELSE chars
                /\ dec_errs' = IF r.ret[1] = "err" THEN Append(dec_errs, r.ret)
                               ELSE dec_errs
                /\ dec_state' = IF r.ret[1] = "none" THEN "ended"
                                ELSE IF r.ret[1] = "panic" THEN "panicked"
                                ELSE "running"
                /\ dec_ev' = Some([item |-> item, group |-> current_group,
                                   letter |-> current_letter, ret |-> r.ret])
                /\ UNCHANGED <<rx_queue, rx_cores, buffer>>
    /\ UNCHANGED <<rx_sent, rx_stream, rx_tick, closed>>
    /\ UNCHANGED notQueue

QueueNext ==
    \/ \E sample \in NextSamples : QueueSend(sample)
    \/ QueueDrop
    \/ QueueRecv

SpecQueue == QueueInit /\ [][QueueNext]_vars

----------------------------------------------------------------------------
(* Claims about the decoder worker of the consumer *)

\* The worker has consumed everything that was sent and decoded.
QueueDrained == rx_queue = << >> /\ rd = Len(buffer)

\* C22: the worker leaves its loop only at the end of the stream, after the
\* sender of its queue was dropped; whatever samples were pushed, it is
\* running until then.
C22_RunsUntilClosed ==
    dec_state # "running" => (dec_state = "ended" /\ closed /\ QueueDrained)

\* The break of the loop, on Ok(None), happens only after the drop.
C22_BreaksOnlyAfterClose == dec_state = "ended" => (closed /\ QueueDrained)

\* C22: a stream that starts in the middle of a pause: the third OFF calls
\* decode_char without a symbol, the assertion fails and the thread is gone
\* while the sender is still there
C22_PanicsMidPause ==
    /\ rx_stream = <<OFF, OFF, OFF, OFF>>
    /\ rx_sent = <<<<10, 20>>, <<11, 21>>>>
    /\ ~closed
    /\ buffer = <<OFF, OFF, OFF, OFF>>
    /\ rd = 3
    /\ dec_errs = << >>
    /\ dec_state = "panicked"

\* a letter error is surfaced and the next letter is decoded
C22_RecoversFromLetterError ==
    /\ rx_stream[3] = ON /\ rx_stream[4] = OFF
    /\ Len(dec_errs) = 1
    /\ Len(dec_errs[1]) = 3
    /\ dec_errs[1][3] = <<"Dot", "Dot", "Dash", "Dash">>
    /\ chars = <<"E">>
    /\ dec_state = "running"

\* C23: once the sender is dropped, the worker leaves its loop only at the
\* end of the stream, with every queued sample consumed.
C23_DrainsAfterDrop ==
    [][(closed /\ dec_state = "running" /\ dec_state' # "running")
          => (dec_state' = "ended" /\ QueueDrained')]_vars

\* Once the sender is dropped and the worker has drained the queue, its next
\* steps end the loop: DecoderRx sees Ok(None).
C23_EndsWhenDrained ==
    (closed /\ QueueDrained /\ dec_state = "running") =>
        read_char_iteration(
            [current_group |-> None, current_letter |-> current_letter],
            None).ret = <<"none">>

\* C23: the sender was dropped with samples in the queue, the worker went
\* on and its thread panicked before it had consumed them
C23_PanicsBeforeDrained ==
    /\ closed
    /\ dec_state = "panicked"
    /\ rx_stream = <<OFF, OFF, OFF, OFF>>
    /\ rx_sent = <<<<10, 20>>, <<0, 0>>, <<11, 21>>, <<0, 0>>>>
    /\ rx_queue = <<<<0, 0>>>>
    /\ rd = 3

\* ---------------------------------------------------------------------------
\* The combinators of signal-flow, one at a time: an Rx combinator over an
\* inner Rx that yields the results of k_src and Ok(None) ever after, or a
\* ChunksTx over a sink that may refuse a chunk.
\* ---------------------------------------------------------------------------

\* the calls made on one combinator
MaxCalls == 5
\* the results the inner Rx has before it is exhausted
MaxSrc == 3
\* the chunk sizes of a ChunksTx
MaxChunk == 3

\* Result<Option<Item>, Box<dyn Error>>
Ok(opt) == [tag |-> "ok", val |-> opt]
Err == [tag |-> "err", val |-> None]
\* a call that never returns
Hang == [tag |-> "hang", val |-> None]

CombValues == {1, 2}
InnerResults == {Ok(Some(v)) : v \in CombValues} \cup {Err}

InnerSources ==
    UNION { [1..n -> InnerResults] : n \in 0..MaxSrc }

RxKinds == {"Map", "Deduplicate", "Fuse"}

\* the inner Rx: its next result, Ok(None) once exhausted
InnerRx_recv(src) == IF src = << >> THEN Ok(None) ELSE Head(src)

\* the closure given to map
MapFn(v) == v + 10

\* MapRx::recv: [state, ret, src, seen], seen being the inner results read
MapRx_recv(st, src) ==
    LET r == InnerRx_recv(src)
    IN  [state |-> st,
         ret |-> IF r.tag = "err" THEN Err
                 ELSE IF IsSome(r.val) THEN Ok(Some(MapFn(Unwrap(r.val))))
                 ELSE Ok(None),
         src |-> IF src = << >> THEN src ELSE Tail(src),
         seen |-> <<r>>]

\* FuseRx::recv
FuseRx_recv_unfused(st, src) ==
    LET r == InnerRx_recv(src)
    IN  [state |-> st,
         ret |-> IF r.tag = "err" THEN Ok(None) ELSE r,
         src |-> IF src = << >> THEN src ELSE Tail(src),
         seen |-> <<r>>]

FuseRx_recv(st, src) ==
    IF st.error
    THEN [state |-> st, ret |-> Ok(None), src |-> src, seen |-> << >>]
    ELSE LET r == InnerRx_recv(src)
         IN  [state |-> [error |-> r.tag = "err"],
              ret |-> IF r.tag = "err" THEN Ok(None) ELSE r,
              src |-> IF src = << >> THEN src ELSE Tail(src),
              seen |-> <<r>>]

\* The while loop of DeduplicateRx::recv: it reads the inner Rx until an item
\* differs from last or the inner Rx fails; over an exhausted inner Rx with
\* last = None every item read equals last, and the loop does not end.
RECURSIVE Deduplicate_loop(_, _, _)
Deduplicate_loop(last, src, seen) ==
    LET r == InnerRx_recv(src)
    IN  IF r.tag = "err"
        THEN [state |-> [last |-> Some(last)], ret |-> Err,
              src |-> Tail(src), seen |-> Append(seen, r)]
        ELSE IF r.val # last
        THEN [state |-> [last |-> Some(r.val)], ret |-> r,
              src |-> IF src = << >> THEN src ELSE Tail(src),
              seen |-> Append(seen, r)]
        ELSE IF src = << >>
        THEN [state |-> [last |-> Some(last)], ret |-> Hang,
              src |-> src, seen |-> seen]
        ELSE Deduplicate_loop(last, Tail(src), Append(seen, r))

\* DeduplicateRx::recv
DeduplicateRx_recv(st, src) ==
    IF st.last = None
    THEN LET r == InnerRx_recv(src)
         IN  [state |-> IF r.tag = "err" THEN st ELSE [last |-> Some(r.val)],
              ret |-> r,
              src |-> IF src = << >> THEN src ELSE Tail(src),
              seen |-> <<r>>]
    ELSE Deduplicate_loop(Unwrap(st.last), src, << >>)

CombInit ==
    /\ LateIdle
    /\ WorkerIdle
    /\ ConsumerIdle
    /\ AppIdle
    /\ QueueIdle
    /\ PerfIdle
    /\ MorseIdle
    /\ NewIdle
    /\ RtsmIdle
    /\ RxIdle
    /\ MultiIdle
    /\ ranges \in TestRanges
    /\ k_kind \in RxKinds \cup {"ChunksTx"}
    /\ k_src \in IF k_kind = "ChunksTx" THEN {<< >>} ELSE InnerSources
    /\ k_size \in IF k_kind = "ChunksTx" THEN 1..MaxChunk ELSE {0}
    /\ k_state = CASE k_kind = "Map" -> [f |-> "MapFn"]
                   [] k_kind = "Deduplicate" -> [last |-> None]
                   [] k_kind = "Fuse" -> [error |-> FALSE]
                   [] OTHER -> [buffer |-> << >>]
    /\ k_polls = 0
    /\ k_log = << >>
    /\ k_in = << >>

Returning == IF k_log = << >> THEN TRUE ELSE k_log[Len(k_log)].tag # "hang"

\* one call of recv on the combinator
CombRecv(kind, r) ==
    /\ k_kind = kind
    /\ Len(k_log) < MaxCalls
    /\ Returning
    /\ k_state' = r.state
    /\ k_src' = r.src
    /\ k_in' = k_in \o r.seen
    /\ k_polls' = k_polls + Len(r.seen)
    /\ k_log' = Append(k_log, r.ret)
    /\ UNCHANGED <<k_kind, k_size>>
    /\ UNCHANGED notComb

MapRecv == CombRecv("Map", MapRx_recv(k_state, k_src))

DeduplicateRecv == CombRecv("Deduplicate", DeduplicateRx_recv(k_state, k_src))

FuseRecv == CombRecv("Fuse", FuseRx_recv(k_state, k_src))

\* One call of ChunksTx::send; sink_ok is whether the wrapped sink accepts
\* the chunk when one is sent down.
ChunksSend(value, sink_ok) ==
    /\ k_kind = "ChunksTx"
    /\ Len(k_log) < MaxCalls
    /\ LET r == ChunksTx_send(k_state.buffer, k_size, value)
       IN  /\ IsSome(r.out) \/ sink_ok
           /\ k_state' = [buffer |-> r.buffer]
           /\ k_polls' = k_polls + (IF IsSome(r.out) THEN 1 ELSE 0)
           /\ k_log' = Append(k_log, [tag |-> IF sink_ok THEN "ok" ELSE "err",
                                      val |-> r.out])
    /\ k_in' = Append(k_in, value)
    /\ UNCHANGED <<k_kind, k_size, k_src>>
    /\ UNCHANGED notComb

CombNext ==
    \/ MapRecv
    \/ DeduplicateRecv
    \/ FuseRecv
    \/ \E value \in CombValues, sink_ok \in BOOLEAN : ChunksSend(value, sink_ok)

SpecComb == CombInit /\ [][CombNext]_vars

\* C24: end-of-stream is permanent through every Rx combinator: over an inner
\* Rx that keeps returning Ok(None) once exhausted, after the combinator has
\* returned Ok(None) every later recv terminates and returns Ok(None).
EndPermanent ==
    \A i, j \in 1..Len(k_log) :
        (i < j /\ k_log[i] = Ok(None)) => k_log[j] = Ok(None)

C24_EndPermanent == k_kind \in RxKinds => EndPermanent

\* C24, for Map and Fuse alone
C24_MapFusePermanent == k_kind \in {"Map", "Fuse"} => EndPermanent

\* C24: a DeduplicateRx over an inner Rx holding one item returns the item,
\* then Ok(None), and its third recv never returns.
C24_DeduplicateHangs ==
    /\ k_kind = "Deduplicate"
    /\ k_in = <<Ok(Some(1)), Ok(None)>>
    /\ k_src = << >>
    /\ k_state = [last |-> Some(None)]
    /\ k_log = <<Ok(Some(1)), Ok(None), Hang>>

\* the items of the chunks handed to the wrapped sink, in order
RECURSIVE Forwarded(_, _)
Forwarded(log, i) ==
    IF i > Len(log) THEN << >>
    ELSE (IF IsSome(log[i].val) THEN Unwrap(log[i].val) ELSE << >>)
         \o Forwarded(log, i + 1)

AllSucceeded == \A i \in 1..Len(k_log) : k_log[i].tag = "ok"

\* C25: ChunksTx(n) hands its sink only vectors of exactly n items; after k
\* sends that all succeeded the forwarded vectors concatenate to the first
\* n * (k \div n) items sent, in order, and the buffer holds the other
\* k % n items, fewer than n.
C25_Chunks ==
    k_kind = "ChunksTx" =>
        /\ \A i \in 1..Len(k_log) :
               IsSome(k_log[i].val) => Len(Unwrap(k_log[i].val)) = k_size
        /\ AllSucceeded =>
               LET k == Len(k_in)
                   whole == k_size * (k \div k_size)
               IN  /\ Forwarded(k_log, 1) = SubSeq(k_in, 1, whole)
                   /\ k_state.buffer = SubSeq(k_in, whole + 1, k)
                   /\ Len(k_state.buffer) = k % k_size
                   /\ Len(k_state.buffer) < k_size

\* C25: five sends through ChunksTx(2): two chunks went down, one item waits.
C25_Witness ==
    /\ k_kind = "ChunksTx"
    /\ k_size = 2
    /\ k_in = <<1, 2, 2, 1, 1>>
    /\ AllSucceeded
    /\ Forwarded(k_log, 1) = <<1, 2, 2, 1>>
    /\ k_polls = 2
    /\ k_state.buffer = <<1>>

NoError(results) == \A i \in 1..Len(results) : results[i].tag # "err"

\* C26: until its inner Rx fails a FuseRx returns what the inner Rx returns,
\* one inner recv per call; the call that sees the error and every call after
\* it returns Ok(None), and the inner recv is not called again.
C26_Fuse ==
    k_kind = "Fuse" =>
        /\ Len(k_in) <= Len(k_log)
        /\ k_polls = Len(k_in)
        /\ NoError(k_in) => Len(k_in) = Len(k_log)
        /\ \A i \in 1..Len(k_in) : k_in[i].tag = "err" => i = Len(k_in)
        /\ \A i \in 1..Len(k_log) :
               k_log[i] = IF i <= Len(k_in) /\ k_in[i].tag # "err"
                          THEN k_in[i] ELSE Ok(None)

\* C26: the inner Rx failed on the second call and still has an item, which
\* the two calls after the failure did not read.
C26_Witness ==
    /\ k_kind = "Fuse"
    /\ k_in = <<Ok(Some(1)), Err>>
    /\ k_src = <<Ok(Some(2))>>
    /\ k_state.error
    /\ k_polls = 2
    /\ k_log = <<Ok(Some(1)), Ok(None), Ok(None), Ok(None)>>

\* ---------------------------------------------------------------------------
\* The serializer of win-high (PerfProvider::collect_object, collect), the
\* parser of win-high (perf_object_type) and the Collect entry point of the
\* provider, over a buffer modelled byte by byte.
\* ---------------------------------------------------------------------------

\* size_of and align_of of the structures of winperf.h
size_of_PERF_OBJECT_TYPE == 64
size_of_PERF_COUNTER_DEFINITION == 40
size_of_PERF_INSTANCE_DEFINITION == 24
size_of_PERF_COUNTER_BLOCK == 4
align_of_PERF_OBJECT_TYPE == 8
align_of_u32 == 4
size_of_u16 == 2
PERF_NO_UNIQUE_ID == 0 - 1
PERF_DETAIL_NOVICE == 100

\* system error codes
ERROR_SUCCESS == 0
ERROR_ACCESS_DENIED == 5
ERROR_INVALID_DATA == 13
ERROR_BAD_ARGUMENTS == 160
ERROR_LOCK_FAILED == 167
ERROR_MORE_DATA == 234

\* a byte of the buffer that nothing has written
Stale == 0 - 1

\* align_to::<T>(size), align being align_of::<T>()
align_to_none(size, align) == size

align_to(size, align) == ((size + align - 1) \div align) * align

align_to_dword(size) == align_to(size, align_of_u32)

\* byte i (from 0) of 0 <= x < 2^31, least significant first
le_byte(x, i) ==
    CASE i = 0 -> x % 256
      [] i = 1 -> (x \div 256) % 256
      [] i = 2 -> (x \div 65536) % 256
      [] i = 3 -> x \div 16777216
      [] OTHER -> 0

\* the n bytes of the integer x in memory (little endian, two's complement)
to_le_bytes(x, n) ==
    [i \in 1..n |-> IF x >= 0 THEN le_byte(x, i - 1)
                    ELSE 255 - le_byte(0 - (x + 1), i - 1)]

u32(x) == to_le_bytes(x, 4)
i64(x) == to_le_bytes(x, 8)

\* the counter types of the templates, by counter size:
\* PERF_COUNTER_RAWCOUNT, PERF_COUNTER_LARGE_RAWCOUNT, PERF_COUNTER_NODATA
CounterType_of_size(size) ==
    CASE size = 4 -> 65536
      [] size = 8 -> 65792
      [] OTHER -> 1073742336

\* CounterTypeDefinition::size: bits 8..9 of the raw type
Size_of_type(raw) ==
    CASE (raw \div 256) % 4 = 0 -> "Dword"
      [] (raw \div 256) % 4 = 1 -> "Large"
      [] (raw \div 256) % 4 = 2 -> "Zero"
      [] OTHER -> "Var"

\* PerfCounterDefinitionTemplate::build_layout
PerfCounterDefinitionTemplate_build_layout(t, first_counter, offset) ==
    [ByteLength |-> size_of_PERF_COUNTER_DEFINITION,
     CounterNameTitleIndex |-> t.name_offset + first_counter,
     CounterHelpTitleIndex |-> t.name_offset + 1 + first_counter,
     DefaultScale |-> 0,
     DetailLevel |-> PERF_DETAIL_NOVICE,
     CounterType |-> CounterType_of_size(t.size),
     CounterSize |-> align_to_dword(t.size),
     CounterOffset |-> offset]

\* CountersBlockTemplate::new
CountersBlockTemplate_new ==
    [ByteLength |-> size_of_PERF_COUNTER_BLOCK, counters |-> << >>]

\* CountersBlockTemplate::add_counter
add_counter(block, counter) ==
    [ByteLength |-> block.ByteLength + align_to_dword(counter.CounterSize),
     counters |-> Append(block.counters, counter)]

\* layout_of_counters, from the i-th template on
RECURSIVE layout_of_counters(_, _, _, _)
layout_of_counters(first_counter, templates, i, block) ==
    IF i > Len(templates) THEN block
    ELSE layout_of_counters(first_counter, templates, i + 1,
             add_counter(block,
                 PerfCounterDefinitionTemplate_build_layout(
                     templates[i], first_counter, block.ByteLength)))

\* the bytes of a name with its nul terminator: as_slice_with_nul, downcast
name_bytes(name) ==
    LET units == Append(name, 0)
    IN  [i \in 1..(Len(units) * size_of_u16) |->
            le_byte(units[(i + 1) \div 2], (i + 1) % 2)]

\* PerfInstanceDefinitionTemplate::build_layout
PerfInstanceDefinitionTemplate_build_layout(t) ==
    LET struct_size == size_of_PERF_INSTANCE_DEFINITION
        name_size == (Len(t.Name) + 1) * size_of_u16
    IN  [ByteLength |-> align_to(struct_size + name_size, align_of_u32),
         ParentObjectTitleIndex |-> 0,
         ParentObjectInstance |-> 0,
         UniqueID |-> t.UniqueID,
         NameOffset |-> struct_size,
         NameLength |-> name_size]

\* layout_of_instances
layout_of_instances(templates) ==
    [i \in 1..Len(templates) |->
        PerfInstanceDefinitionTemplate_build_layout(templates[i])]

RECURSIVE SumByteLength(_, _)
SumByteLength(layouts, i) ==
    IF i > Len(layouts) THEN 0
    ELSE layouts[i].ByteLength + SumByteLength(layouts, i + 1)

\* PerfObjectTypeTemplate::build_layout; instances is None or Some(layouts)
PerfObjectTypeTemplate_build_layout(t, first_counter, counters, instances, block) ==
    LET counters_length == SumByteLength(counters, 1)
        instances_length ==
            IF IsSome(instances) THEN SumByteLength(Unwrap(instances), 1) ELSE 0
        blocks_length ==
            (IF IsSome(instances) THEN Len(Unwrap(instances)) ELSE 1)
                * block.ByteLength
        header_length == size_of_PERF_OBJECT_TYPE
        definition_length == header_length + counters_length
        total == align_to(definition_length + instances_length + blocks_length,
                          align_of_PERF_OBJECT_TYPE)
    IN  [TotalByteLength |-> total,
         DefinitionLength |-> definition_length,
         HeaderLength |-> header_length,
         ObjectNameTitleIndex |-> first_counter + t.name_offset,
         ObjectHelpTitleIndex |-> first_counter + t.name_offset + 1,
         DetailLevel |-> PERF_DETAIL_NOVICE,
         NumCounters |-> Len(counters),
         DefaultCounter |-> 0 - 1,
         NumInstances |-> IF IsSome(instances) THEN Len(Unwrap(instances))
                          ELSE perf_no_instances,
         PerfTime |-> 0,
         PerfFreq |-> 0]

\* the structures in memory
PERF_OBJECT_TYPE_bytes(o) ==
    u32(o.TotalByteLength) \o u32(o.DefinitionLength) \o u32(o.HeaderLength)
    \o u32(o.ObjectNameTitleIndex) \o u32(0) \o u32(o.ObjectHelpTitleIndex)
    \o u32(0) \o u32(o.DetailLevel) \o u32(o.NumCounters)
    \o u32(o.DefaultCounter) \o u32(o.NumInstances) \o u32(0)
    \o i64(o.PerfTime) \o i64(o.PerfFreq)

PERF_COUNTER_DEFINITION_bytes(c) ==
    u32(c.ByteLength) \o u32(c.CounterNameTitleIndex) \o u32(0)
    \o u32(c.CounterHelpTitleIndex) \o u32(0) \o u32(c.DefaultScale)
    \o u32(c.DetailLevel) \o u32(c.CounterType) \o u32(c.CounterSize)
    \o u32(c.CounterOffset)

PERF_INSTANCE_DEFINITION_bytes(d) ==
    u32(d.ByteLength) \o u32(d.ParentObjectTitleIndex)
    \o u32(d.ParentObjectInstance) \o u32(d.UniqueID) \o u32(d.NameOffset)
    \o u32(d.NameLength)

\* A slice being written: the bytes of the whole buffer, where the slice
\* starts and ends in it, and whether a step has failed.
Slice(buf, pos, lim) == [buf |-> buf, pos |-> pos, lim |-> lim, err |-> FALSE]

\* Op applied to the value of v, v being evaluated once
Bind(v, Op(_)) == CHOOSE r \in {Op(x) : x \in {v}} : TRUE

write_at(buf, off, bytes) ==
    Bind(<<buf, off, bytes>>, LAMBDA a :
        [i \in 1..Len(a[1]) |->
            IF a[2] < i /\ i <= a[2] + Len(a[3]) THEN a[3][i - a[2]] ELSE a[1][i]])

\* copy_struct_into_buffer
copy_struct_into_buffer(slice, bytes) ==
    Bind(slice, LAMBDA w :
        IF w.err THEN w
        ELSE IF w.lim - w.pos < Len(bytes) THEN [w EXCEPT !.err = TRUE]
        ELSE [w EXCEPT !.buf = write_at(w.buf, w.pos, bytes)])

\* buffer.get_mut(n..).ok_or(())
get_mut_from(slice, n) ==
    Bind(slice, LAMBDA w :
        IF w.err THEN w
        ELSE IF w.lim - w.pos < n THEN [w EXCEPT !.err = TRUE]
        ELSE [w EXCEPT !.pos = w.pos + n])

\* copy_cstr_into_buffer
copy_cstr_into_buffer(slice, name, offset, length) ==
    Bind(slice, LAMBDA w :
        IF w.err THEN w
        ELSE IF w.lim - w.pos < offset + length \/ length # Len(name_bytes(name))
        THEN [w EXCEPT !.err = TRUE]
        ELSE [w EXCEPT !.buf = write_at(w.buf, w.pos + offset, name_bytes(name))])

write_object_type_header(object, w) ==
    get_mut_from(copy_struct_into_buffer(w, PERF_OBJECT_TYPE_bytes(object)),
                 object.HeaderLength)

write_counter_definition(counter, w) ==
    get_mut_from(copy_struct_into_buffer(w, PERF_COUNTER_DEFINITION_bytes(counter)),
                 counter.ByteLength)

RECURSIVE write_counter_definitions(_, _, _)
write_counter_definitions(counters, i, w) ==
    IF i > Len(counters) THEN w
    ELSE write_counter_definitions(counters, i + 1,
                                   write_counter_definition(counters[i], w))

\* PerfInstanceDefinitionTemplate::write_with_layout
write_with_layout(t, def, w) ==
    get_mut_from(
        copy_cstr_into_buffer(
            copy_struct_into_buffer(w, PERF_INSTANCE_DEFINITION_bytes(def)),
            t.Name, def.NameOffset, def.NameLength),
        def.ByteLength)

\* PerfProvider::data of the provider under test: the value of counter ci
\* (from 1) for instance ii (from 1; 0 when the object has no instances)
provider_data(ci, ii) == 300 * ci + ii

\* CounterVal::write: the bytes of the value the provider returns
CounterVal_bytes(size, value) ==
    CASE size = 4 -> to_le_bytes(value, 4)
      [] size = 8 -> to_le_bytes(value, 8)
      [] OTHER -> << >>

\* CountersBlockBuffer::write of every counter, from the i-th on; w is the
\* slice of the block
RECURSIVE write_values(_, _, _, _, _)
write_values(counters, templates, ii, i, slice) ==
    Bind(slice, LAMBDA w :
        IF i > Len(counters) \/ i > Len(templates) \/ w.err THEN w
        ELSE LET offset == counters[i].CounterOffset
                 length == counters[i].CounterSize
                 bytes == CounterVal_bytes(templates[i].size, provider_data(i, ii))
             IN  write_values(counters, templates, ii, i + 1,
                     IF w.lim - w.pos < offset + length \/ Len(bytes) # length
                     THEN [w EXCEPT !.err = TRUE]
                     ELSE [w EXCEPT !.buf = write_at(w.buf, w.pos + offset, bytes)]))

\* PerfProvider::write_block
write_block(templates, block, ii, slice) ==
    Bind(slice, LAMBDA w :
        IF w.err THEN w
        ELSE IF w.lim - w.pos < block.ByteLength THEN [w EXCEPT !.err = TRUE]
        ELSE Bind(write_values(block.counters, templates, ii, 1,
                      copy_struct_into_buffer(
                          Slice(w.buf, w.pos, w.pos + block.ByteLength),
                          u32(block.ByteLength))),
                  LAMBDA done :
                      IF done.err THEN [w EXCEPT !.buf = done.buf, !.err = TRUE]
                      ELSE get_mut_from([w EXCEPT !.buf = done.buf],
                                        block.ByteLength)))

RECURSIVE write_instances(_, _, _, _, _, _)
write_instances(instance_templates, instances, templates, block, i, w) ==
    IF i > Len(instances) THEN w
    ELSE write_instances(instance_templates, instances, templates, block, i + 1,
             write_block(templates, block, i,
                 write_with_layout(instance_templates[i], instances[i], w)))

\* buffer.get_mut(..n): whether the buffer holds n bytes
get_mut_to_any(len, n) == TRUE

get_mut_to(len, n) == n <= len

\* the layout collect_object builds before it writes
object_layout(t, first_counter) ==
    LET block == layout_of_counters(first_counter, t.counters, 1,
                                    CountersBlockTemplate_new)
        instances == IF IsSome(t.instances)
                     THEN Some(layout_of_instances(Unwrap(t.instances)))
                     ELSE None
    IN  [block |-> block,
         instances |-> instances,
         object |-> PerfObjectTypeTemplate_build_layout(
                        t, first_counter, block.counters, instances, block)]

\* PerfProvider::collect_object on the buffer from offset start on:
\* [code, length, buf, rest], rest being the offset at which the rest starts
collect_object(t, first, buffer_all, start) ==
    Bind(buffer_all, LAMBDA buf :
    IF first = None
    THEN [code |-> ERROR_INVALID_DATA, length |-> 0, buf |-> buf, rest |-> start]
    ELSE
    Bind(object_layout(t, Unwrap(first)), LAMBDA l :
    LET total == l.object.TotalByteLength
        len == Len(buf) - start
    IN  IF ~get_mut_to(len, total)
        THEN [code |-> ERROR_MORE_DATA, length |-> 0, buf |-> buf, rest |-> start]
        ELSE
        LET w0 == Slice(buf, start, start + (IF total <= len THEN total ELSE len))
            w1 == write_object_type_header(l.object, w0)
            w2 == write_counter_definitions(l.block.counters, 1, w1)
        IN  Bind(IF l.instances = None
                 THEN write_block(t.counters, l.block, 0, w2)
                 ELSE write_instances(Unwrap(t.instances), Unwrap(l.instances),
                                      t.counters, l.block, 1, w2),
                 LAMBDA w3 :
                     IF w3.err
                     THEN [code |-> ERROR_ACCESS_DENIED, length |-> 0,
                           buf |-> w3.buf, rest |-> start]
                     ELSE [code |-> ERROR_SUCCESS, length |-> total,
                           buf |-> w3.buf, rest |-> start + total])))

\* ---- the parser (win-high perf::nom) --------------------------------------

\* the integer in the 4 bytes of buf after offset off
\* (read as i32 when signed is TRUE)
from_le_bytes(buf, off, signed) ==
    IF signed /\ buf[off + 4] >= 128
    THEN 0 - ((255 - buf[off + 1]) + 256 * (255 - buf[off + 2])
              + 65536 * (255 - buf[off + 3]) + 16777216 * (255 - buf[off + 4])) - 1
    ELSE buf[off + 1] + 256 * buf[off + 2] + 65536 * buf[off + 3]
         + 16777216 * buf[off + 4]

\* nom::bytes::complete::take(n) on the input from off to end
can_take(off, end, n) == 0 <= n /\ n <= end - off

\* perf_counter_definition: take_struct, the fields read back
perf_counter_definition(buf, off) ==
    [ByteLength |-> from_le_bytes(buf, off, FALSE),
     CounterNameTitleIndex |-> from_le_bytes(buf, off + 4, FALSE),
     CounterHelpTitleIndex |-> from_le_bytes(buf, off + 12, FALSE),
     DefaultScale |-> from_le_bytes(buf, off + 20, TRUE),
     DetailLevel |-> from_le_bytes(buf, off + 24, FALSE),
     CounterType |-> from_le_bytes(buf, off + 28, FALSE),
     CounterSize |-> from_le_bytes(buf, off + 32, FALSE),
     CounterOffset |-> from_le_bytes(buf, off + 36, FALSE)]

\* U16CStr::from_slice_truncate: the units before the first nul
RECURSIVE from_slice_truncate(_, _)
from_slice_truncate(units, i) ==
    IF i > Len(units) THEN None
    ELSE IF units[i] = 0 THEN Some(SubSeq(units, 1, i - 1))
    ELSE from_slice_truncate(units, i + 1)

\* u16cstr: Some(name) or None
u16cstr(buf, input, end, offset, len) ==
    IF ~can_take(input, end, offset) \/ ~can_take(input + offset, end, len)
       \/ len % size_of_u16 # 0
    THEN None
    ELSE from_slice_truncate(
             [k \in 1..(len \div size_of_u16) |->
                 buf[input + offset + 2 * k - 1] + 256 * buf[input + offset + 2 * k]],
             1)

\* perf_instance_definition advancing by the size of the structure
perf_instance_definition_packed(buf, off, end) ==
    IF ~can_take(off, end, size_of_PERF_INSTANCE_DEFINITION) THEN None
    ELSE LET name == u16cstr(buf, off, end, from_le_bytes(buf, off + 16, FALSE),
                             from_le_bytes(buf, off + 20, FALSE))
         IN  IF name = None THEN None
             ELSE Some([UniqueID |-> from_le_bytes(buf, off + 12, TRUE),
                        name |-> Unwrap(name),
                        rest |-> off + size_of_PERF_INSTANCE_DEFINITION])

\* perf_instance_definition: Some([UniqueID, name, rest]) or None
perf_instance_definition(buf, off, end) ==
    IF ~can_take(off, end, size_of_PERF_INSTANCE_DEFINITION) THEN None
    ELSE LET ByteLength == from_le_bytes(buf, off, FALSE)
             name == u16cstr(buf, off, end, from_le_bytes(buf, off + 16, FALSE),
                             from_le_bytes(buf, off + 20, FALSE))
         IN  IF name = None \/ ~can_take(off, end, ByteLength) THEN None
             ELSE Some([UniqueID |-> from_le_bytes(buf, off + 12, TRUE),
                        name |-> Unwrap(name),
                        rest |-> off + ByteLength])

\* perf_counter_block: Some([start, ByteLength, rest]) or None
perf_counter_block(buf, off, end) ==
    IF ~can_take(off, end, size_of_PERF_COUNTER_BLOCK) THEN None
    ELSE LET ByteLength == from_le_bytes(buf, off, FALSE)
         IN  IF ~can_take(off, end, ByteLength) THEN None
             ELSE Some([start |-> off, ByteLength |-> ByteLength,
                        rest |-> off + ByteLength])

\* CounterValue::try_get / get_value of one counter in one block
get_value(buf, def, block) ==
    LET offset == def.CounterOffset
        len == def.CounterSize
        size == Size_of_type(def.CounterType)
    IN  IF offset + len > block.ByteLength
        THEN [kind |-> "BadSize", v |-> 0]
        ELSE IF size = "Dword"
        THEN IF len = 4
             THEN [kind |-> "Dword", v |-> from_le_bytes(buf, block.start + offset, FALSE)]
             ELSE [kind |-> "BadSize", v |-> 0]
        ELSE IF size = "Large"
        THEN IF len = 8
             THEN [kind |-> "Large",
                   v |-> IF from_le_bytes(buf, block.start + offset + 4, FALSE) = 0
                         THEN from_le_bytes(buf, block.start + offset, FALSE)
                         ELSE 0 - 1]
             ELSE [kind |-> "BadSize", v |-> 0]
        ELSE IF size = "Zero" THEN [kind |-> "Zero", v |-> 0]
        ELSE [kind |-> "UnknownType", v |-> 0]

block_values(buf, counters, block) ==
    [i \in 1..Len(counters) |-> get_value(buf, counters[i], block)]

\* many_m_n(n, n, pair(perf_instance_definition, perf_counter_block)):
\* Some(pairs) or None
RECURSIVE instance_pairs(_, _, _, _, _, _)
instance_pairs(buf, off, end, n, counters, acc) ==
    IF Len(acc) = n THEN Some(acc)
    ELSE LET def == perf_instance_definition(buf, off, end)
         IN  IF def = None THEN None
             ELSE LET block == perf_counter_block(buf, Unwrap(def).rest, end)
                  IN  IF block = None THEN None
                      ELSE instance_pairs(buf, Unwrap(block).rest, end, n, counters,
                               Append(acc,
                                   [UniqueID |-> Unwrap(def).UniqueID,
                                    name |-> Unwrap(def).name,
                                    values |-> block_values(buf, counters,
                                                            Unwrap(block))]))

ParseError == [tag |-> "err"]

\* perf_object_type on the input from off to end
perf_object_type(buf, off, end) ==
    IF ~can_take(off, end, size_of_PERF_OBJECT_TYPE) THEN ParseError
    ELSE
    LET TotalByteLength == from_le_bytes(buf, off, FALSE)
        DefinitionLength == from_le_bytes(buf, off + 4, FALSE)
        HeaderLength == from_le_bytes(buf, off + 8, FALSE)
        NumCounters == from_le_bytes(buf, off + 32, FALSE)
        NumInstances == from_le_bytes(buf, off + 40, TRUE)
    IN  IF \/ ~can_take(off, end, HeaderLength)
           \/ ~can_take(off + HeaderLength, end,
                        NumCounters * size_of_PERF_COUNTER_DEFINITION)
           \/ ~can_take(off, end, DefinitionLength)
           \/ ~can_take(off, end, TotalByteLength)
        THEN ParseError
        ELSE
        LET counters ==
                [i \in 1..NumCounters |->
                    perf_counter_definition(buf,
                        off + HeaderLength
                            + (i - 1) * size_of_PERF_COUNTER_DEFINITION)]
            i2 == off + DefinitionLength
            single == perf_counter_block(buf, i2, end)
            pairs == instance_pairs(buf, i2, end, NumInstances, counters, << >>)
        IN  IF NumInstances = perf_no_instances
            THEN IF single = None THEN ParseError
                 ELSE [tag |-> "ok",
                       ObjectNameTitleIndex |-> from_le_bytes(buf, off + 12, FALSE),
                       TotalByteLength |-> TotalByteLength,
                       counters |-> counters,
                       singleton |-> TRUE,
                       pairs |-> <<[UniqueID |-> PERF_NO_UNIQUE_ID, name |-> << >>,
                                    values |-> block_values(buf, counters,
                                                            Unwrap(single))]>>,
                       rest |-> off + TotalByteLength]
            ELSE IF NumInstances < 0 \/ pairs = None THEN ParseError
                 ELSE [tag |-> "ok",
                       ObjectNameTitleIndex |-> from_le_bytes(buf, off + 12, FALSE),
                       TotalByteLength |-> TotalByteLength,
                       counters |-> counters,
                       singleton |-> FALSE,
                       pairs |-> Unwrap(pairs),
                       rest |-> off + TotalByteLength]

\* n objects one after the other, as perf_data_block reads them:
\* [objects, rest], objects ending with ParseError when one does not parse
RECURSIVE perf_object_types(_, _, _, _, _)
perf_object_types(buf, off, end, n, acc) ==
    IF Len(acc) = n THEN [objects |-> acc, rest |-> off]
    ELSE LET o == perf_object_type(buf, off, end)
         IN  IF o.tag = "err" THEN [objects |-> Append(acc, o), rest |-> off]
             ELSE perf_object_types(buf, o.rest, end, n, Append(acc, o))

\* ---- the provider under test and the calls made on it ----------------------

\* the "First Counter" value of the registry
FirstCounter == 100

CounterLists ==
    {<< >>, <<4>>, <<8>>, <<0>>, <<4, 8>>, <<0, 4>>, <<8, 8, 4>>}

NameA == <<65>>
NameAB == <<65, 9786>>

InstanceLists ==
    {None, Some(<< >>),
     Some(<<[Name |-> NameA, UniqueID |-> 0]>>),
     Some(<<[Name |-> << >>, UniqueID |-> PERF_NO_UNIQUE_ID],
            [Name |-> NameAB, UniqueID |-> 1]>>),
     Some(<<[Name |-> NameA, UniqueID |-> 0], [Name |-> NameAB, UniqueID |-> 1]>>)}

CounterTemplates(sizes) ==
    [i \in 1..Len(sizes) |-> [name_offset |-> 2 * i, size |-> sizes[i]]]

\* the first object of the provider, and what may follow it
FirstObjects ==
    { [name_offset |-> 0, counters |-> CounterTemplates(sizes), instances |-> insts] :
        sizes \in CounterLists, insts \in InstanceLists }

SecondObjects ==
    { << >>,
      <<[name_offset |-> 4, counters |-> CounterTemplates(<<4>>), instances |-> None]>>,
      <<[name_offset |-> 4, counters |-> CounterTemplates(<< >>),
         instances |-> Some(<<[Name |-> NameAB, UniqueID |-> 0]>>)]>> }

\* TotalByteLength of the layout of the objects from the i-th on
RECURSIVE required(_, _)
required(objects, i) ==
    IF i > Len(objects) THEN 0
    ELSE object_layout(objects[i], FirstCounter).object.TotalByteLength
         + required(objects, i + 1)

BufferLengths(objects) ==
    LET one == required(<<objects[1]>>, 1)
        all == required(objects, 1)
    IN  {0, one - 1, one, all - 1, all, all + 3}

PerfInit ==
    /\ LateIdle
    /\ WorkerIdle
    /\ ConsumerIdle
    /\ AppIdle
    /\ QueueIdle
    /\ CombIdle
    /\ MorseIdle
    /\ NewIdle
    /\ RtsmIdle
    /\ RxIdle
    /\ MultiIdle
    /\ ranges \in TestRanges
    /\ \E first \in FirstObjects, second \in SecondObjects :
           c_objects = <<first>> \o second
    /\ c_first \in {None, Some(FirstCounter)}
    /\ \E len \in BufferLengths(c_objects) :
           /\ c_buffer = [i \in 1..len |-> Stale]
           /\ c_out = [lppData |-> 0, lpcbTotalBytes |-> len, lpNumObjectTypes |-> 7]
    /\ c_pc = "idle"
    /\ c_result = None
    /\ c_query = << >>
    /\ c_parsed = None

\* a direct call of collect_object for the first object
CollectObject ==
    /\ c_pc = "idle"
    /\ \E r \in {collect_object(c_objects[1], c_first, c_buffer, 0)} :
           /\ c_buffer' = r.buf
           /\ c_result' = Some([call |-> "collect_object",
                                code |-> r.code, length |-> r.length,
                                rest |-> Len(c_buffer) - r.rest,
                                num_object_types |-> IF r.code = ERROR_SUCCESS
                                                     THEN 1 ELSE 0])
    /\ c_pc' = "object"
    /\ UNCHANGED <<c_objects, c_first, c_query, c_out, c_parsed>>
    /\ UNCHANGED notPerf

\* the query strings, one character per element
str_Global == <<"G", "l", "o", "b", "a", "l">>

str_Costly == <<"C", "o", "s", "t", "l", "y">>

str_Foreign == <<"F", "o", "r", "e", "i", "g", "n">>

str_100 == <<"1", "0", "0">>

str_104 == <<"1", "0", "4">>

str_u32_max == <<"4", "2", "9", "4", "9", "6", "7", "2", "9", "5">>

str_u32_over == <<"4", "2", "9", "4", "9", "6", "7", "2", "9", "6">>

Queries ==
    {<< >>, str_Global, str_Costly, str_Foreign, str_100, str_104,
     str_100 \o <<" ">> \o str_104,
     <<" ">> \o str_104 \o <<"\t", " ">> \o str_100 \o <<" ">>,
     <<"7">>, <<"x">>, str_100 \o <<" ", "x">>,
     <<" ", "\t">>, str_Global \o <<" ">>, str_Global \o <<" ">> \o str_100,
     <<"0">> \o str_100, <<"+">> \o str_104, <<"-", "1">>, <<"+">>,
     str_u32_max, str_u32_over, str_100 \o <<" ">> \o str_u32_over}

\* str::split_ascii_whitespace: the non-empty runs between white space
RECURSIVE split_ascii_whitespace(_, _, _)
split_ascii_whitespace(s, i, item) ==
    IF i > Len(s) THEN (IF item = << >> THEN << >> ELSE <<item>>)
    ELSE IF is_ascii_whitespace(s[i])
    THEN (IF item = << >> THEN << >> ELSE <<item>>)
         \o split_ascii_whitespace(s, i + 1, << >>)
    ELSE split_ascii_whitespace(s, i + 1, Append(item, s[i]))

Digits == <<"0", "1", "2", "3", "4", "5", "6", "7", "8", "9">>

to_digit(c) == IF \E d \in 1..10 : Digits[d] = c
               THEN Some((CHOOSE d \in 1..10 : Digits[d] = c) - 1)
               ELSE None

\* a u32 is kept as its two 16-bit halves <<high, low>>
u32_of(n) == <<n \div 65536, n % 65536>>

\* checked_mul10_add without the overflow checks
wrapping_mul10_add(v, d) ==
    LET low == v[2] * 10 + d
        high == v[1] * 10 + low \div 65536
    IN  Some(<<high % 65536, low % 65536>>)

\* result.checked_mul(10)?.checked_add(digit)?
checked_mul10_add(v, d) ==
    LET low == v[2] * 10 + d
        high == v[1] * 10 + low \div 65536
    IN  IF high > 65535 THEN None ELSE Some(<<high, low % 65536>>)

RECURSIVE parse_digits(_, _, _)
parse_digits(item, i, v) ==
    IF i > Len(item) THEN Some(v)
    ELSE LET d == to_digit(item[i])
         IN  IF d = None THEN None
             ELSE LET next == checked_mul10_add(v, Unwrap(d))
                  IN  IF next = None THEN None
                      ELSE parse_digits(item, i + 1, Unwrap(next))

\* item.parse::<u32>(): an optional "+", then digits, the value below 2^32
parse_u32(item) ==
    IF item = << >> THEN None
    ELSE IF item[1] \in {"+", "-"} /\ Len(item) = 1 THEN None
    ELSE IF item[1] = "+" THEN parse_digits(item, 2, u32_of(0))
    ELSE parse_digits(item, 1, u32_of(0))

\* QueryType::from_str: Some(query type) or None
QueryType_from_str(s) ==
    IF s = str_Global \/ s = << >> THEN Some([kind |-> "Global", items |-> {}])
    ELSE IF s = str_Costly THEN Some([kind |-> "Costly", items |-> {}])
    ELSE IF s = str_Foreign THEN Some([kind |-> "Foreign", items |-> {}])
    ELSE LET q == split_ascii_whitespace(s, 1, << >>)
         IN  IF \E i \in 1..Len(q) : parse_u32(q[i]) = None THEN None
             ELSE Some([kind |-> "Items",
                        items |-> {Unwrap(parse_u32(q[i])) : i \in 1..Len(q)}])

\* PerfProvider::should_respond: "yes", "no" or "err" (first_counter failed)
should_respond(query, object, first) ==
    IF query.kind = "Global" THEN "yes"
    ELSE IF query.kind = "Items"
    THEN IF first = None THEN "err"
         ELSE IF u32_of(Unwrap(first) + object.name_offset) \in query.items
         THEN "yes" ELSE "no"
    ELSE "no"

\* PerfProvider::collect from the i-th object on
RECURSIVE collect(_, _, _, _, _)
collect(query, objects, first, i, collected) ==
    Bind(collected, LAMBDA acc :
    IF i > Len(objects) THEN acc
    ELSE LET answer == should_respond(query, objects[i], first)
         IN  IF answer = "err" THEN [acc EXCEPT !.code = ERROR_INVALID_DATA]
             ELSE IF answer = "no" THEN collect(query, objects, first, i + 1, acc)
             ELSE Bind(collect_object(objects[i], first, acc.buf, acc.total_bytes),
                       LAMBDA r :
                           IF r.code # ERROR_SUCCESS
                           THEN [acc EXCEPT !.code = r.code, !.buf = r.buf]
                           ELSE collect(query, objects, first, i + 1,
                                    [code |-> ERROR_SUCCESS, buf |-> r.buf,
                                     total_bytes |-> acc.total_bytes + r.length,
                                     num_object_types |-> acc.num_object_types + 1])))

\* what MyCollectProc leaves in the outputs when collect fails
outputs_on_error_kept(out) == out

outputs_on_error(out) ==
    [out EXCEPT !.lpcbTotalBytes = 0, !.lpNumObjectTypes = 0]

\* the Collect entry point of the provider
MyCollectProc(query, lock_ok) ==
    /\ c_pc = "idle"
    /\ c_query' = query
    /\ c_pc' = "collected"
    /\ LET query_type == QueryType_from_str(query)
           failed(code) == [call |-> "MyCollectProc", code |-> code, length |-> 0,
                            rest |-> Len(c_buffer), num_object_types |-> 0]
       IN  IF query_type = None
           THEN /\ c_result' = Some(failed(ERROR_BAD_ARGUMENTS))
                /\ c_out' = outputs_on_error(c_out)
                /\ UNCHANGED c_buffer
           ELSE IF ~lock_ok
           THEN /\ c_result' = Some(failed(ERROR_LOCK_FAILED))
                /\ c_out' = outputs_on_error(c_out)
                /\ UNCHANGED c_buffer
           ELSE \E r \in {collect(Unwrap(query_type), c_objects, c_first, 1,
                                  [code |-> ERROR_SUCCESS, buf |-> c_buffer,
                                   total_bytes |-> 0, num_object_types |-> 0])} :
                IF r.code # ERROR_SUCCESS
                THEN /\ c_result' = Some(failed(r.code))
                     /\ c_out' = outputs_on_error(c_out)
                     /\ c_buffer' = r.buf
                ELSE /\ c_result' = Some([call |-> "MyCollectProc",
                                          code |-> ERROR_SUCCESS,
                                          length |-> r.total_bytes,
                                          rest |-> Len(c_buffer) - r.total_bytes,
                                          num_object_types |-> r.num_object_types])
                     /\ c_out' = [lppData |-> c_out.lppData + r.total_bytes,
                                  lpcbTotalBytes |-> r.total_bytes,
                                  lpNumObjectTypes |-> r.num_object_types]
                     /\ c_buffer' = r.buf
    /\ UNCHANGED <<c_objects, c_first, c_parsed>>
    /\ UNCHANGED notPerf

\* the consumer parses the bytes reported as written
ParseObjects ==
    /\ c_pc \in {"object", "collected"}
    /\ Unwrap(c_result).code = ERROR_SUCCESS
    /\ c_parsed' = Some(perf_object_types(c_buffer, 0, Unwrap(c_result).length,
                                          Unwrap(c_result).num_object_types, << >>))
    /\ c_pc' = "parsed"
    /\ UNCHANGED <<c_objects, c_first, c_buffer, c_result, c_query, c_out>>
    /\ UNCHANGED notPerf

PerfNext ==
    \/ CollectObject
    \/ \E query \in Queries, lock_ok \in BOOLEAN : MyCollectProc(query, lock_ok)
    \/ ParseObjects

SpecPerf == PerfInit /\ [][PerfNext]_vars

\* ---- C27 .. C30 ------------------------------------------------------------

Result == Unwrap(c_result)

Untouched == \A i \in 1..Len(c_buffer) : c_buffer[i] = Stale

\* C27: collect_object on a buffer shorter than TotalByteLength of the
\* object's layout returns ERROR_MORE_DATA and writes no byte; on a buffer of
\* exactly that size it succeeds and the remainder is empty.
C27_SmallBuffer ==
    (c_pc = "object" /\ c_first # None) =>
        LET total == required(<<c_objects[1]>>, 1)
        IN  /\ Len(c_buffer) < total =>
                (Result.code = ERROR_MORE_DATA /\ Untouched)
            /\ Len(c_buffer) = total =>
                (Result.code = ERROR_SUCCESS /\ Result.length = total
                 /\ Result.rest = 0)

\* C27: a two-instance object on a buffer one byte short.
C27_Witness ==
    /\ c_pc = "object"
    /\ c_first # None
    /\ c_objects[1].counters = CounterTemplates(<<4, 8>>)
    /\ c_objects[1].instances =
           Some(<<[Name |-> NameA, UniqueID |-> 0], [Name |-> NameAB, UniqueID |-> 1]>>)
    /\ Len(c_buffer) = required(<<c_objects[1]>>, 1) - 1
    /\ Result.code = ERROR_MORE_DATA
    /\ Untouched

\* the objects found in the buffer, each as [start, total, span]: where it
\* starts, the TotalByteLength its header holds, and how far from its start
\* its last written byte lies
WrittenIn(start, total) ==
    {i \in (start + 1)..(start + total) : i <= Len(c_buffer) /\ c_buffer[i] # Stale}

Span(start, total) ==
    LET w == WrittenIn(start, total)
    IN  IF w = {} THEN 0 ELSE (CHOOSE i \in w : \A j \in w : j <= i) - start

RECURSIVE ObjectsWritten(_, _)
ObjectsWritten(start, n) ==
    IF n = 0 THEN << >>
    ELSE LET total == from_le_bytes(c_buffer, start, FALSE)
         IN  <<[start |-> start, total |-> total, span |-> Span(start, total)]>>
             \o ObjectsWritten(start + total, n - 1)

RECURSIVE SumTotal(_, _)
SumTotal(objs, i) ==
    IF i > Len(objs) THEN 0 ELSE objs[i].total + SumTotal(objs, i + 1)

Succeeded == c_pc \in {"object", "collected"} /\ Result.code = ERROR_SUCCESS

\* C28 as stated: the TotalByteLength in each object's header equals the
\* bytes written for the object, and total_bytes is the sum of these lengths.
C28_LengthIsWritten ==
    Succeeded =>
        LET objs == ObjectsWritten(0, Result.num_object_types)
        IN  /\ \A k \in 1..Len(objs) : objs[k].total = objs[k].span
            /\ Result.length = SumTotal(objs, 1)

\* C28, amended: TotalByteLength is the written span of the object rounded
\* up to a multiple of 8; the bytes between the two are not written;
\* total_bytes is the sum of the TotalByteLength of the objects written.
C28_LengthIsAlignedSpan ==
    Succeeded =>
        LET objs == ObjectsWritten(0, Result.num_object_types)
        IN  /\ \A k \in 1..Len(objs) :
                   /\ objs[k].total % align_of_PERF_OBJECT_TYPE = 0
                   /\ objs[k].span <= objs[k].total
                   /\ objs[k].total - objs[k].span < align_of_PERF_OBJECT_TYPE
               /\ Result.length = SumTotal(objs, 1)

\* C28: an object with no counter and no instance: 68 bytes written (header
\* and an empty block), TotalByteLength 72, followed by a second object.
C28_PaddedObject ==
    /\ c_pc = "collected"
    /\ Result.code = ERROR_SUCCESS
    /\ Result.num_object_types = 2
    /\ c_objects[1].counters = << >>
    /\ c_objects[1].instances = None
    /\ LET objs == ObjectsWritten(0, 2)
       IN  /\ objs[1].span = 68
           /\ objs[1].total = 72
           /\ objs[2].start = 72
           /\ Result.length = 72 + objs[2].total
    /\ c_buffer[69] = Stale

\* ---- C29 -------------------------------------------------------------------

\* the objects a call writes
RECURSIVE Responding(_, _, _)
Responding(query, objects, i) ==
    IF i > Len(objects) THEN << >>
    ELSE (IF should_respond(query, objects[i], c_first) = "yes"
          THEN <<objects[i]>> ELSE << >>)
         \o Responding(query, objects, i + 1)

ObjectsOfCall ==
    IF Result.call = "collect_object" THEN <<c_objects[1]>>
    ELSE Responding(Unwrap(QueryType_from_str(c_query)), c_objects, 1)

ExpectedValue(size, ci, ii) ==
    CASE size = 4 -> [kind |-> "Dword", v |-> provider_data(ci, ii)]
      [] size = 8 -> [kind |-> "Large", v |-> provider_data(ci, ii)]
      [] OTHER -> [kind |-> "Zero", v |-> 0]

ExpectedValues(t, ii) ==
    [ci \in 1..Len(t.counters) |-> ExpectedValue(t.counters[ci].size, ci, ii)]

\* whether the parsed object p is the object of template t
SameObject(p, t) ==
    /\ p.tag = "ok"
    /\ p.ObjectNameTitleIndex = Unwrap(c_first) + t.name_offset
    /\ Len(p.counters) = Len(t.counters)
    /\ \A ci \in 1..Len(t.counters) :
           /\ p.counters[ci].CounterNameTitleIndex
                  = Unwrap(c_first) + t.counters[ci].name_offset
           /\ p.counters[ci].CounterHelpTitleIndex
                  = Unwrap(c_first) + t.counters[ci].name_offset + 1
           /\ p.counters[ci].CounterSize = t.counters[ci].size
           /\ p.counters[ci].CounterType = CounterType_of_size(t.counters[ci].size)
           /\ p.counters[ci].DefaultScale = 0
    /\ p.singleton = (t.instances = None)
    /\ IF t.instances = None
       THEN p.pairs = <<[UniqueID |-> PERF_NO_UNIQUE_ID, name |-> << >>,
                         values |-> ExpectedValues(t, 0)]>>
       ELSE p.pairs = [ii \in 1..Len(Unwrap(t.instances)) |->
                          [UniqueID |-> Unwrap(t.instances)[ii].UniqueID,
                           name |-> Unwrap(t.instances)[ii].Name,
                           values |-> ExpectedValues(t, ii)]]

\* C29: parsing what the serializer wrote yields the objects it was given:
\* the counters in order, the singleton layout exactly without an instance
\* list, the (unique id, name, values) pairs in order, and no byte left over.
C29_RoundTrip ==
    c_pc = "parsed" =>
        LET p == Unwrap(c_parsed)
            ts == ObjectsOfCall
        IN  /\ Len(p.objects) = Len(ts)
            /\ \A k \in 1..Len(ts) : SameObject(p.objects[k], ts[k])
            /\ p.rest = Result.length

\* C29: two objects parsed back, the first with two instances (an empty name
\* without unique id, then a two-unit name) and counters of 8, 8 and 4 bytes.
C29_Witness ==
    /\ c_pc = "parsed"
    /\ Len(c_objects) = 2
    /\ c_objects[1].counters = CounterTemplates(<<8, 8, 4>>)
    /\ LET p == Unwrap(c_parsed)
       IN  /\ Len(p.objects) = 2
           /\ p.objects[1].tag = "ok"
           /\ ~p.objects[1].singleton
           /\ Len(p.objects[1].pairs) = 2
           /\ p.objects[1].pairs[1].name = << >>
           /\ p.objects[1].pairs[1].UniqueID = PERF_NO_UNIQUE_ID
           /\ p.objects[1].pairs[2].name = NameAB
           /\ p.objects[1].pairs[2].values[3] = [kind |-> "Dword", v |-> 902]
           /\ p.objects[2].tag = "ok"
           /\ p.rest = Result.length

\* ---- C30 -------------------------------------------------------------------

\* C30: MyCollectProc returns 0 only when the query parsed and every
\* responding object was serialized, and then the outputs hold the bytes
\* written, the number of objects and the advanced data pointer; with any
\* other return value both counts are 0.
C30_Collect ==
    (c_pc = "collected") =>
        /\ QueryType_from_str(c_query) = None => Result.code = ERROR_BAD_ARGUMENTS
        /\ IF Result.code = ERROR_SUCCESS
           THEN /\ QueryType_from_str(c_query) # None
                /\ LET ts == ObjectsOfCall
                       objs == ObjectsWritten(0, Len(ts))
                   IN  /\ c_out.lpNumObjectTypes = Len(ts)
                       /\ c_out.lpcbTotalBytes = required(ts, 1)
                       /\ c_out.lpcbTotalBytes = SumTotal(objs, 1)
                       /\ c_out.lpcbTotalBytes <= Len(c_buffer)
                       /\ c_out.lppData = c_out.lpcbTotalBytes
           ELSE /\ c_out.lpcbTotalBytes = 0
                /\ c_out.lpNumObjectTypes = 0
                /\ c_out.lppData = 0
                /\ Result.code \in {ERROR_BAD_ARGUMENTS, ERROR_LOCK_FAILED,
                                    ERROR_MORE_DATA, ERROR_INVALID_DATA}

\* C30: the buffer holds the first object but not the second: the call
\* fails with ERROR_MORE_DATA and zero counts, the first object written.
C30_Witness ==
    /\ c_pc = "collected"
    /\ c_query = str_Global
    /\ Len(c_objects) = 2
    /\ Len(c_buffer) = required(c_objects, 1) - 1
    /\ Result.code = ERROR_MORE_DATA
    /\ c_buffer[1] # Stale
    /\ c_out = [lppData |-> 0, lpcbTotalBytes |-> 0, lpNumObjectTypes |-> 0]

\* ---- C31 -------------------------------------------------------------------

IsDigits(item) ==
    item # << >> /\ \A i \in 1..Len(item) : to_digit(item[i]) # None

RECURSIVE strip_zeros(_)
strip_zeros(item) ==
    IF Len(item) > 1 /\ item[1] = "0" THEN strip_zeros(Tail(item)) ELSE item

\* the decimal digits of a natural number
RECURSIVE decimal(_)
decimal(n) ==
    IF n < 10 THEN <<Digits[n + 1]>>
    ELSE Append(decimal(n \div 10), Digits[(n % 10) + 1])

\* a digit string that denotes a number of at most 4294967295
FitsU32(item) ==
    LET c == strip_zeros(item)
    IN  \/ Len(c) < 10
        \/ /\ Len(c) = 10
           /\ ~\E i \in 1..10 :
                  /\ Unwrap(to_digit(c[i])) > Unwrap(to_digit(str_u32_max[i]))
                  /\ \A j \in 1..(i - 1) : c[j] = str_u32_max[j]

Numeral(item) == IF Len(item) > 1 /\ item[1] = "+" THEN Tail(item) ELSE item

IsU32(item) == IsDigits(Numeral(item)) /\ FitsU32(Numeral(item))

ItemsOf(s) == split_ascii_whitespace(s, 1, << >>)

Keyword(s) == s \in {<< >>, str_Global, str_Costly, str_Foreign}

\* the configured objects whose name index is written in the list s
Listed(s) ==
    SelectSeq(c_objects, LAMBDA t :
        \E i \in 1..Len(ItemsOf(s)) :
            strip_zeros(Numeral(ItemsOf(s)[i]))
                = decimal(Unwrap(c_first) + t.name_offset))

\* the buffer holds exactly the objects ts, in order
Serialized(ts) ==
    /\ Result.code = ERROR_SUCCESS
    /\ Result.num_object_types = Len(ts)
    /\ Result.length = required(ts, 1)
    /\ LET objs == ObjectsWritten(0, Len(ts))
       IN  \A k \in 1..Len(ts) :
               from_le_bytes(c_buffer, objs[k].start + 12, FALSE)
                   = Unwrap(c_first) + ts[k].name_offset
    /\ \A i \in (Result.length + 1)..Len(c_buffer) : c_buffer[i] = Stale

\* the outcome of a call that has to serialize the objects ts
Outcome(ts) ==
    IF Result.code = ERROR_LOCK_FAILED THEN Untouched
    ELSE IF c_first = None THEN Result.code = ERROR_INVALID_DATA
    ELSE IF required(ts, 1) > Len(c_buffer) THEN Result.code = ERROR_MORE_DATA
    ELSE Serialized(ts)

SerializedNone ==
    \/ Result.code = ERROR_LOCK_FAILED /\ Untouched
    \/ /\ Result.code = ERROR_SUCCESS
       /\ Result.length = 0
       /\ Result.num_object_types = 0
       /\ c_out.lpcbTotalBytes = 0
       /\ c_out.lpNumObjectTypes = 0
       /\ Untouched

KeywordOutcome ==
    /\ c_query \in {<< >>, str_Global} => Outcome(c_objects)
    /\ c_query \in {str_Costly, str_Foreign} => SerializedNone

\* C31 as stated: every list of decimal integers selects the objects whose
\* name index it holds, and a list with a non-numeric item is rejected.
C31_DecimalLists ==
    (c_pc = "collected") =>
        /\ KeywordOutcome
        /\ (~Keyword(c_query)
            /\ \A i \in 1..Len(ItemsOf(c_query)) : IsDigits(ItemsOf(c_query)[i]))
               => IF c_first = None THEN Outcome(<< >>) ELSE Outcome(Listed(c_query))
        /\ (~Keyword(c_query)
            /\ \E i \in 1..Len(ItemsOf(c_query)) :
                   \E j \in 1..Len(ItemsOf(c_query)[i]) :
                       /\ to_digit(ItemsOf(c_query)[i][j]) = None
                       /\ ItemsOf(c_query)[i][j] \notin {"+", "-"})
               => Result.code = ERROR_BAD_ARGUMENTS

\* C31, amended: "Global" and the empty string serialize every configured
\* object; "Costly" and "Foreign" serialize none and succeed with zero bytes
\* and zero objects; any other string whose white-space separated items are
\* all digit strings with an optional leading "+" and a value of at most
\* 4294967295 serializes exactly the objects whose name index is an item;
\* every other string, among them a list with a negative item or an item
\* above 4294967295, is rejected as a bad argument.
C31_Query ==
    (c_pc = "collected") =>
        /\ KeywordOutcome
        /\ ~Keyword(c_query) =>
               IF \A i \in 1..Len(ItemsOf(c_query)) : IsU32(ItemsOf(c_query)[i])
               THEN IF c_first = None THEN Outcome(<< >>)
                    ELSE Outcome(Listed(c_query))
               ELSE /\ Result.code = ERROR_BAD_ARGUMENTS
                    /\ Untouched

\* C31: of two objects with the name indices 100 and 104 the list "104"
\* selects the second alone.
C31_Witness ==
    /\ c_pc = "collected"
    /\ c_query = str_104
    /\ Len(c_objects) = 2
    /\ Result.code = ERROR_SUCCESS
    /\ Result.num_object_types = 1
    /\ from_le_bytes(c_buffer, 12, FALSE) = 104
    /\ Listed(c_query) = <<c_objects[2]>>

\* C31: the list "4294967296" is rejected.
C31_OverflowRejected ==
    /\ c_pc = "collected"
    /\ c_query = str_u32_over
    /\ Result.code = ERROR_BAD_ARGUMENTS

\* ---- the NumInstances value of the registry --------------------------------

PERF_NO_INSTANCES == 0 - 1

MaxInstances == 1024

I32_MIN == 0 - 2147483647 - 1

I32_MAX == 2147483647

\* the numbers stored as NumInstances
RegNumbers ==
    ((0 - 4)..6) \cup (1020..1028) \cup ((0 - 1027)..(0 - 1022))
    \cup {I32_MIN, I32_MIN + 1, 0 - 65536, 0 - 256, 255, 256, 65535, 65536,
          16777216, I32_MAX - 1, I32_MAX}

\* what the registry holds: nothing, a DWORD, or a value of another type or size
RegValues ==
    {None}
    \cup {Some([ty |-> "REG_DWORD", bytes |-> u32(v)]) : v \in RegNumbers}
    \cup {Some([ty |-> "REG_BINARY", bytes |-> u32(v)]) : v \in {0 - 1, 0, 5, 2000}}
    \cup {Some([ty |-> "REG_BINARY", bytes |-> b]) : b \in {<< >>, <<5>>, <<5, 0, 0, 0, 0>>}}

\* LONG::from_ne_bytes on a little-endian machine
LONG_from_ne_bytes(bytes) == from_le_bytes(bytes, 0, TRUE)

\* query_value_dword: the four bytes of a REG_DWORD value, or None (an error)
query_value_dword(reg) ==
    IF reg = None THEN None
    ELSE IF Unwrap(reg).ty # "REG_DWORD" THEN None
    ELSE IF Len(Unwrap(reg).bytes) # 4 THEN None
    ELSE Some(Unwrap(reg).bytes)

NoInstances == [tag |-> "NoInstances", n |-> 0]

N(n) == [tag |-> "N", n |-> n]

\* TryFrom<i32> for NumInstances
NumInstances_try_from(value) ==
    IF value = PERF_NO_INSTANCES THEN Some(NoInstances)
    ELSE IF value >= 0 /\ value <= 1024 THEN Some(N(value))
    ELSE None

\* n.min(1024).max(1)
min_max(n) ==
    LET m == IF n < MaxInstances THEN n ELSE MaxInstances
    IN  IF m > 1 THEN m ELSE 1

\* reg.rs: get_number_of_instances
reg_get_number_of_instances(reg) ==
    LET dword == query_value_dword(reg)
    IN  IF dword = None THEN NoInstances
        ELSE LET num == LONG_from_ne_bytes(Unwrap(dword))
                 value == NumInstances_try_from(num)
             IN  IF value = None THEN NoInstances
                 ELSE IF Unwrap(value).tag = "NoInstances" THEN NoInstances
                 ELSE N(min_max(Unwrap(value).n))

\* lib.rs: get_number_of_instances, a LONG
lib_get_number_of_instances(reg) ==
    IF reg = None THEN 0 - 1
    ELSE IF Len(Unwrap(reg).bytes) # 4 THEN 0 - 1
    ELSE min_max(LONG_from_ne_bytes(Unwrap(reg).bytes))

\* lib.rs: INSTANCES_USIZE
INSTANCES_USIZE(num) == IF num = 0 - 1 THEN 1 ELSE num

RegInit ==
    /\ RtsmIdle /\ RxIdle /\ MultiIdle /\ NewIdle /\ MorseIdle
    /\ WorkerIdle /\ ConsumerIdle /\ AppIdle
    /\ QueueIdle /\ CombIdle /\ PerfIdle /\ IdIdle /\ HKeyIdle /\ LayoutIdle
    /\ CoderIdle
    /\ ranges = None
    /\ n_reg \in RegValues
    /\ n_pc = "idle"
    /\ n_num = None
    /\ n_instances = << >>

\* App::start: the instances made from get_number_of_instances of reg.rs
AppStart ==
    /\ n_pc = "idle"
    /\ n_pc' = "reg"
    /\ \E num \in {reg_get_number_of_instances(n_reg)} :
           /\ n_num' = Some(num)
           /\ n_instances' =
                  IF num.tag = "NoInstances" THEN <<PERF_NO_UNIQUE_ID>>
                  ELSE [i \in 1..num.n |-> i - 1]
    /\ UNCHANGED n_reg
    /\ UNCHANGED notReg

\* lib.rs: NUM_INSTANCES, INSTANCES_USIZE and the instances of the provider
LibStart ==
    /\ n_pc = "idle"
    /\ n_pc' = "lib"
    /\ \E num \in {lib_get_number_of_instances(n_reg)} :
           /\ n_num' = Some(IF num = 0 - 1 THEN NoInstances ELSE N(num))
           /\ n_instances' =
                  IF num = 0 - 1 THEN <<PERF_NO_UNIQUE_ID>>
                  ELSE [i \in 1..INSTANCES_USIZE(num) |-> i - 1]
    /\ UNCHANGED n_reg
    /\ UNCHANGED notReg

RegNext == AppStart \/ LibStart

SpecReg == RegInit /\ [][RegNext]_vars

\* ---- C32 -------------------------------------------------------------------

\* the 32-bit signed value stored as NumInstances, when there is one
Stored == LONG_from_ne_bytes(Unwrap(n_reg).bytes)

HasDword ==
    /\ n_reg # None
    /\ Unwrap(n_reg).ty = "REG_DWORD"
    /\ Len(Unwrap(n_reg).bytes) = 4

\* C32: a stored -1 selects the singleton layout and every other stored
\* value gives a number of instances within 1..=1024.
C32_Clamped ==
    (n_pc # "idle" /\ HasDword) =>
        IF Stored = 0 - 1
        THEN Unwrap(n_num) = NoInstances
        ELSE /\ Unwrap(n_num).tag = "N"
             /\ Unwrap(n_num).n >= 1
             /\ Unwrap(n_num).n <= 1024
             /\ Len(n_instances) = Unwrap(n_num).n

\* C32: App::start with NumInstances = 1025 makes the singleton instance.
C32_AboveMaxIsSingleton ==
    /\ n_pc = "reg"
    /\ HasDword
    /\ Stored = 1025
    /\ Unwrap(n_num) = NoInstances
    /\ n_instances = <<PERF_NO_UNIQUE_ID>>

\* ---- InstanceId: eq, partial_cmp, cmp and hash ------------------------------

InstanceId_new(id, name) == [unique_id |-> id, name |-> name]

\* InstanceId::unique_id: None iff the id is PERF_NO_UNIQUE_ID
InstanceId_unique_id(this) ==
    IF this.unique_id = PERF_NO_UNIQUE_ID THEN None ELSE Some(this.unique_id)

\* i32::cmp
i32_cmp(a, b) == IF a < b THEN "Less" ELSE IF a = b THEN "Equal" ELSE "Greater"

\* U16CString::cmp: the units in lexicographic order
RECURSIVE U16CString_cmp(_, _)
U16CString_cmp(a, b) ==
    IF a = << >> /\ b = << >> THEN "Equal"
    ELSE IF a = << >> THEN "Less"
    ELSE IF b = << >> THEN "Greater"
    ELSE IF Head(a) # Head(b) THEN i32_cmp(Head(a), Head(b))
    ELSE U16CString_cmp(Tail(a), Tail(b))

\* PartialEq for InstanceId
InstanceId_eq(this, other) ==
    LET self_valid == IsSome(InstanceId_unique_id(this))
        other_valid == IsSome(InstanceId_unique_id(other))
    IN  IF self_valid /\ other_valid THEN this.unique_id = other.unique_id
        ELSE IF self_valid \/ other_valid THEN FALSE
        ELSE this.name = other.name

\* PartialOrd for InstanceId
InstanceId_partial_cmp(this, other) ==
    LET self_valid == IsSome(InstanceId_unique_id(this))
        other_valid == IsSome(InstanceId_unique_id(other))
    IN  IF self_valid /\ other_valid
        THEN Some(i32_cmp(this.unique_id, other.unique_id))
        ELSE IF self_valid \/ other_valid THEN None
        ELSE Some(U16CString_cmp(this.name, other.name))

\* an ordering of incomparable ids that ignores which one has the unique id
unwrap_or_greater(this) == "Greater"

\* self.unique_id().map(|_| Ordering::Greater).unwrap_or(Ordering::Less)
unwrap_or_else(this) ==
    IF IsSome(InstanceId_unique_id(this)) THEN "Greater" ELSE "Less"

\* Ord for InstanceId
InstanceId_Ord_cmp(this, other) ==
    LET partial == InstanceId_partial_cmp(this, other)
    IN  IF IsSome(partial) THEN Unwrap(partial) ELSE unwrap_or_else(this)

\* id.wrapping_mul(37) of an i32, as the two 16-bit halves of the product
wrapping_mul_37(id) ==
    LET b == u32(id)
        low == (b[1] + 256 * b[2]) * 37
        high == (b[3] + 256 * b[4]) * 37 + low \div 65536
    IN  <<high % 65536, low % 65536>>

\* Hash for InstanceId: what the id writes into the Hasher
InstanceId_hash(this) ==
    IF IsSome(InstanceId_unique_id(this))
    THEN [i32 |-> wrapping_mul_37(this.unique_id), units |-> << >>]
    ELSE [i32 |-> << >>, units |-> this.name]

IdNumbers == {PERF_NO_UNIQUE_ID, 0 - 2, 0, 42, I32_MAX}

IdNames == {<< >>, <<97>>, <<97, 98>>, <<98>>}

InstanceIds == {InstanceId_new(id, name) : id \in IdNumbers, name \in IdNames}

IdInit ==
    /\ RtsmIdle /\ RxIdle /\ MultiIdle /\ NewIdle /\ MorseIdle
    /\ WorkerIdle /\ ConsumerIdle /\ AppIdle
    /\ QueueIdle /\ CombIdle /\ PerfIdle /\ RegIdle /\ HKeyIdle /\ LayoutIdle
    /\ CoderIdle
    /\ ranges = None
    /\ i_ids \in [1..3 -> InstanceIds]
    /\ i_pc = "idle"
    /\ i_cmp = << >>
    /\ i_eq = << >>
    /\ i_hash = << >>

\* every two of the ids are compared
Compare ==
    /\ i_pc = "idle"
    /\ i_pc' = "compared"
    /\ i_cmp' = [x \in 1..3 |-> [y \in 1..3 |-> InstanceId_Ord_cmp(i_ids[x], i_ids[y])]]
    /\ i_eq' = [x \in 1..3 |-> [y \in 1..3 |-> InstanceId_eq(i_ids[x], i_ids[y])]]
    /\ UNCHANGED <<i_ids, i_hash>>
    /\ UNCHANGED notId

\* the ids are used as keys of a HashMap
HashIds ==
    /\ i_pc = "compared"
    /\ i_pc' = "hashed"
    /\ i_hash' = [x \in 1..3 |-> InstanceId_hash(i_ids[x])]
    /\ UNCHANGED <<i_ids, i_cmp, i_eq>>
    /\ UNCHANGED notId

IdNext == Compare \/ HashIds

SpecId == IdInit /\ [][IdNext]_vars

\* ---- C33 -------------------------------------------------------------------

Defined(x) == i_ids[x].unique_id # PERF_NO_UNIQUE_ID

Reverse(o) == CASE o = "Less" -> "Greater" [] o = "Greater" -> "Less" [] OTHER -> "Equal"

\* whether the name a is before the name b in lexicographic order
NameBefore(a, b) ==
    \E k \in 0..Len(a) :
        /\ k <= Len(b)
        /\ \A j \in 1..k : a[j] = b[j]
        /\ IF k = Len(a) THEN k < Len(b) ELSE k < Len(b) /\ a[k + 1] < b[k + 1]

\* C33: ids with unique ids are equal and ordered by unique id, ids without
\* by name, an id with a unique id is unequal to and greater than one without;
\* cmp is antisymmetric and transitive and Equal exactly when the ids are ==,
\* and ids that are == feed the same data into the Hasher.
C33_Order ==
    (i_pc \in {"compared", "hashed"}) =>
        \A x \in 1..3, y \in 1..3 :
            /\ (Defined(x) /\ Defined(y)) =>
                   /\ i_eq[x][y] = (i_ids[x].unique_id = i_ids[y].unique_id)
                   /\ (i_cmp[x][y] = "Less") = (i_ids[x].unique_id < i_ids[y].unique_id)
            /\ (~Defined(x) /\ ~Defined(y)) =>
                   /\ i_eq[x][y] = (i_ids[x].name = i_ids[y].name)
                   /\ (i_cmp[x][y] = "Less") = NameBefore(i_ids[x].name, i_ids[y].name)
            /\ (Defined(x) /\ ~Defined(y)) =>
                   /\ ~i_eq[x][y] /\ ~i_eq[y][x]
                   /\ i_cmp[x][y] = "Greater"
                   /\ i_cmp[y][x] = "Less"
            /\ i_cmp[x][y] = Reverse(i_cmp[y][x])
            /\ (i_cmp[x][y] = "Equal") = i_eq[x][y]
            /\ \A z \in 1..3 :
                   (i_cmp[x][y] # "Greater" /\ i_cmp[y][z] # "Greater") =>
                       /\ i_cmp[x][z] # "Greater"
                       /\ (i_cmp[x][z] = "Equal") =>
                              (i_cmp[x][y] = "Equal" /\ i_cmp[y][z] = "Equal")
            /\ (i_pc = "hashed" /\ i_eq[x][y]) => i_hash[x] = i_hash[y]

\* C33: two ids with the unique id 42 and different names are equal and hash
\* alike, and both are greater than an id without unique id that has the
\* name of one of them.
C33_Witness ==
    /\ i_pc = "hashed"
    /\ i_ids[1] = InstanceId_new(42, <<97>>)
    /\ i_ids[2] = InstanceId_new(42, <<98>>)
    /\ i_ids[3] = InstanceId_new(PERF_NO_UNIQUE_ID, <<98>>)
    /\ i_eq[1][2]
    /\ i_cmp[1][2] = "Equal"
    /\ i_hash[1] = i_hash[2]
    /\ i_cmp[2][3] = "Greater"
    /\ i_cmp[3][1] = "Less"
    /\ ~i_eq[2][3]

\* ---- HKey_Safe: the wrappers of one registry handle --------------------------

MaxWrappers == 4

\* RegCloseKey at the OS: a handle that is open is closed; one that was
\* closed before is invalid, or was handed out again and closes another key
RegCloseKey(handle) ==
    IF handle = "open" THEN {"ERROR_SUCCESS"}
    ELSE {"ERROR_INVALID_HANDLE", "closed_other_key"}

HKeyInit ==
    /\ RtsmIdle /\ RxIdle /\ MultiIdle /\ NewIdle /\ MorseIdle
    /\ WorkerIdle /\ ConsumerIdle /\ AppIdle
    /\ QueueIdle /\ CombIdle /\ PerfIdle /\ RegIdle /\ IdIdle /\ LayoutIdle
    /\ CoderIdle
    /\ ranges = None
    /\ h_alive = {}
    /\ h_made = 0
    /\ h_strong = 0
    /\ h_handle = "none"
    /\ h_closes = << >>

\* RegOpenKeyEx_Safe succeeded: HKey_Safe::owned(phkResult)
HKey_Safe_owned ==
    /\ h_handle = "none"
    /\ h_handle' = "open"
    /\ h_alive' = {1}
    /\ h_made' = 1
    /\ h_strong' = 1
    /\ UNCHANGED h_closes
    /\ UNCHANGED notHKey

\* Clone for HKey_Safe: Rc::clone
HKey_Safe_clone(w) ==
    /\ w \in h_alive
    /\ h_made < MaxWrappers
    /\ h_made' = h_made + 1
    /\ h_alive' = h_alive \cup {h_made + 1}
    /\ h_strong' = h_strong + 1
    /\ UNCHANGED <<h_handle, h_closes>>
    /\ UNCHANGED notHKey

\* Drop for HKey_Safe: RegCloseKey_Safe(**self), then the Rc is dropped
HKey_Safe_drop(w) ==
    /\ w \in h_alive
    /\ \E code \in RegCloseKey(h_handle) :
           h_closes' = Append(h_closes, [by |-> w, code |-> code,
                                         alive |-> h_alive \ {w},
                                         strong |-> h_strong])
    /\ h_handle' = "closed"
    /\ h_alive' = h_alive \ {w}
    /\ h_strong' = h_strong - 1
    /\ UNCHANGED h_made
    /\ UNCHANGED notHKey

HKeyNext ==
    \/ HKey_Safe_owned
    \/ \E w \in 1..MaxWrappers : HKey_Safe_clone(w)
    \/ \E w \in 1..MaxWrappers : HKey_Safe_drop(w)

SpecHKey == HKeyInit /\ [][HKeyNext]_vars

\* ---- C34 -------------------------------------------------------------------

\* C34: RegCloseKey is called at most once for the handle, by the drop of
\* the last wrapper and never while another wrapper is alive, and it has been
\* called once all wrappers are dropped.
C34_ClosedOnce ==
    /\ Len(h_closes) <= 1
    /\ \A k \in 1..Len(h_closes) :
           h_closes[k].alive = {} /\ h_closes[k].strong = 1
    /\ (h_made > 0 /\ h_alive = {}) => Len(h_closes) = 1

\* C34: the handle is closed by the drop of one of two wrappers and the
\* other wrapper, still alive then, calls RegCloseKey again when it is dropped.
C34_ClosedTwice ==
    /\ h_made = 2
    /\ h_alive = {}
    /\ Len(h_closes) = 2
    /\ h_closes[1].code = "ERROR_SUCCESS"
    /\ h_closes[1].alive # {}
    /\ h_closes[1].strong = 2
    /\ h_closes[2].code # "ERROR_SUCCESS"

\* ---- C35 -------------------------------------------------------------------

\* the OFF units at the end of the buffer: those emitted since the last ON
RECURSIVE TrailingOff(_)
TrailingOff(buf) ==
    IF buf = << >> THEN 0
    ELSE IF buf[Len(buf)] = ON THEN 0
    ELSE 1 + TrailingOff(SubSeq(buf, 1, Len(buf) - 1))

\* the durations of the pauses requested since the last ON: the symbol and
\* the letter pause after the last letter, a word pause per white space since
RECURSIVE PausesRequested(_)
PausesRequested(s) ==
    IF s = << >> THEN {}
    ELSE LET c == s[Len(s)]
         IN  IF IsSome(encode_char(c))
             THEN {duration("SymbolPause"), duration("LetterPause")}
             ELSE IF is_ascii_whitespace(c)
             THEN {duration("WordPause")} \cup PausesRequested(SubSeq(s, 1, Len(s) - 1))
             ELSE PausesRequested(SubSeq(s, 1, Len(s) - 1))

StrongestPause(s) ==
    IF PausesRequested(s) = {} THEN 0
    ELSE CHOOSE d \in PausesRequested(s) : \A e \in PausesRequested(s) : e <= d

\* C35, first part: pause_written <= pause_duration <= 7, so that the
\* assertion of send_pause holds at the next call.
C35_PauseBounded ==
    /\ enc.pause_written <= enc.pause_duration
    /\ enc.pause_duration <= 7

\* C35: after any sequence of letters, white space and unknown characters
\* pause_written <= pause_duration <= 7 and the OFF units emitted since the
\* last ON are as many as the longest pause requested since that ON.
C35_PauseIsStrongest ==
    (enc # None) =>
        /\ C35_PauseBounded
        /\ TrailingOff(buffer) = StrongestPause(str)

\* C35: "a", an unknown character and a space: the letter pause of 3 units
\* is written, forgotten at the unknown character, and 7 more units follow.
C35_PauseWrittenTwice ==
    /\ str = <<"a", "#", " ">>
    /\ TrailingOff(buffer) = 10
    /\ StrongestPause(str) = 7
    /\ enc = [pause_duration |-> 7, pause_written |-> 7]

\* ---- the counter block of a list of counter templates ------------------------

MaxCounters == 3

\* the sizes given to with_size, or inferred from the counter type
CounterSizes == {0, 1, 2, 4, 5, 8}

SizeLists == UNION {[1..n -> CounterSizes] : n \in 0..MaxCounters}

LayoutInit ==
    /\ RtsmIdle /\ RxIdle /\ MultiIdle /\ NewIdle /\ MorseIdle
    /\ WorkerIdle /\ ConsumerIdle /\ AppIdle
    /\ QueueIdle /\ CombIdle /\ PerfIdle /\ RegIdle /\ IdIdle /\ HKeyIdle
    /\ CoderIdle
    /\ ranges = None
    /\ l_sizes \in SizeLists
    /\ l_pc = "idle"
    /\ l_block = None
    /\ l_owner = << >>
    /\ l_next = 0
    /\ l_faults = {}

\* layout_of_counters over the templates
LayoutOfCounters ==
    /\ l_pc = "idle"
    /\ l_pc' = "laid"
    /\ l_block' = Some(layout_of_counters(FirstCounter, CounterTemplates(l_sizes), 1,
                                          CountersBlockTemplate_new))
    /\ UNCHANGED <<l_sizes, l_owner, l_next, l_faults>>
    /\ UNCHANGED notLayout

\* CountersBlockTemplate::block: the block's bytes, the length written first
CountersBlockTemplate_block ==
    /\ l_pc = "laid"
    /\ l_pc' = "block"
    /\ l_owner' = [i \in 1..Unwrap(l_block).ByteLength |->
                      IF i <= size_of_PERF_COUNTER_BLOCK THEN 0 ELSE 0 - 1]
    /\ l_next' = 1
    /\ UNCHANGED <<l_sizes, l_block, l_faults>>
    /\ UNCHANGED notLayout

\* CountersBlockBuffer::write of the next counter: its slice
\* offset..offset + length of the block, if the block has it
CountersBlockBuffer_write ==
    /\ l_pc = "block"
    /\ l_next <= Len(l_sizes)
    /\ LET def == Unwrap(l_block).counters[l_next]
           offset == def.CounterOffset
           length == def.CounterSize
       IN  IF offset + length > Len(l_owner)
           THEN /\ l_faults' = l_faults \cup {<<l_next, "no slice">>}
                /\ UNCHANGED l_owner
           ELSE /\ l_owner' = [i \in 1..Len(l_owner) |->
                                  IF i > offset /\ i <= offset + length
                                  THEN l_next ELSE l_owner[i]]
                /\ l_faults' = l_faults \cup
                       {<<l_next, "overwrites">> :
                            i \in {j \in (offset + 1)..(offset + length) :
                                       l_owner[j] # 0 - 1}}
    /\ l_next' = l_next + 1
    /\ UNCHANGED <<l_sizes, l_pc, l_block>>
    /\ UNCHANGED notLayout

LayoutNext ==
    \/ LayoutOfCounters
    \/ CountersBlockTemplate_block
    \/ CountersBlockBuffer_write

SpecLayout == LayoutInit /\ [][LayoutNext]_vars

\* ---- C36 -------------------------------------------------------------------

\* the size rounded up to a multiple of 4
Aligned4(size) == CHOOSE a \in size..(size + 3) : a % 4 = 0

RECURSIVE SumAligned(_, _)
SumAligned(sizes, n) ==
    IF n = 0 THEN 0 ELSE Aligned4(sizes[n]) + SumAligned(sizes, n - 1)

\* C36: each counter's offset is 4 plus the sum of the aligned sizes of the
\* counters before it; the byte ranges of the counters are disjoint, none
\* overlaps the length field, each lies inside the block, and the block's
\* ByteLength is the end of the last counter.
C36_Offsets ==
    (l_pc # "idle") =>
        LET block == Unwrap(l_block)
            n == Len(l_sizes)
            from(k) == block.counters[k].CounterOffset
            to(k) == from(k) + Aligned4(l_sizes[k])
        IN  /\ Len(block.counters) = n
            /\ \A k \in 1..n :
                   /\ from(k) = size_of_PERF_COUNTER_BLOCK + SumAligned(l_sizes, k - 1)
                   /\ block.counters[k].CounterSize = Aligned4(l_sizes[k])
                   /\ from(k) >= size_of_PERF_COUNTER_BLOCK
                   /\ to(k) <= block.ByteLength
                   /\ \A j \in 1..n : j # k => (to(j) <= from(k) \/ to(k) <= from(j))
            /\ block.ByteLength = IF n = 0 THEN size_of_PERF_COUNTER_BLOCK ELSE to(n)
            /\ l_faults = {}
            /\ (l_pc = "block" /\ l_next > n) =>
                   \A i \in 1..Len(l_owner) : l_owner[i] # 0 - 1

\* C36: counters of 5, 0 and 2 bytes: offsets 4, 12 and 12, sizes 8, 0 and
\* 4, a block of 16 bytes, every byte written by its owner alone.
C36_Witness ==
    /\ l_sizes = <<5, 0, 2>>
    /\ l_pc = "block"
    /\ l_next = 4
    /\ Unwrap(l_block).ByteLength = 16
    /\ Unwrap(l_block).counters[1].CounterOffset = 4
    /\ Unwrap(l_block).counters[2].CounterOffset = 12
    /\ Unwrap(l_block).counters[3].CounterOffset = 12
    /\ l_owner = <<0, 0, 0, 0, 1, 1, 1, 1, 1, 1, 1, 1, 3, 3, 3, 3>>
    /\ l_faults = {}

\* ---- C37 -------------------------------------------------------------------

\* C37: decode_char is never called with an empty letter buffer: the
\* assertion of decode_char never fails, whatever the input.
C37_NeverEmptyLetter == dec_state # "panicked"

\* C37: an ON run of two units is surfaced as an error, the three OFF units
\* after it reach decode_current_letter with no symbol in the letter buffer.
C37_PanicsAfterError ==
    /\ buffer = <<ON, ON, OFF, OFF, OFF>>
    /\ Len(dec_errs) = 1
    /\ current_letter = << >>
    /\ rd = 5
    /\ dec_state = "panicked"

\* ---- C38 -------------------------------------------------------------------

\* C38: while no tick of a WorkerBuilder worker went unread, the vector of
\* each poll equals the vector of the poll before in every channel or
\* differs from it in every channel, and RtsmMultiRx does not return the
\* partial-silence error for it.
C38_AllOrNothing ==
    (w_kind = "WorkerBuilder" /\ ~missed /\ rx_poll # None) =>
        LET p == Unwrap(rx_poll)
        IN  /\ p.res # "partial"
            /\ p.prev # None =>
                   \/ \A i \in 1..Len(p.vec) : p.vec[i] = Unwrap(p.prev)[i]
                   \/ \A i \in 1..Len(p.vec) : p.vec[i] # Unwrap(p.prev)[i]

\* C38: three instances, a poll after each of two ticks: the second vector
\* differs from the first in every channel although the first channel
\* carries the same signal in both, and it decodes to three bits.
C38_Witness ==
    /\ w_kind = "WorkerBuilder"
    /\ w_n = 3
    /\ ~missed
    /\ Len(cols) = 2
    /\ bits[1] = bits[4]
    /\ rx_poll # None
    /\ Unwrap(rx_poll).vec = cols[2]
    /\ Unwrap(rx_poll).prev = Some(cols[1])
    /\ \A i \in 1..3 : cols[2][i] # cols[1][i]
    /\ Unwrap(rx_poll).res = "vec"
    /\ Len(rx_bits) = 6

\* ---- the RtsmTx of one instance of a WorkerBuilder worker --------------------

\* the ordinals of the instances looked at: the first ones and the last of 1024
MaxOrdinal == 8

Ordinals == 0..MaxOrdinal \cup {MaxInstances - 1}

CoderInit ==
    /\ RtsmIdle /\ RxIdle /\ MultiIdle /\ NewIdle /\ MorseIdle
    /\ WorkerIdle /\ ConsumerIdle /\ AppIdle
    /\ QueueIdle /\ CombIdle /\ PerfIdle /\ RegIdle /\ IdIdle /\ HKeyIdle
    /\ LayoutIdle
    /\ ranges = None
    /\ o_i \in Ordinals
    /\ o_tx = Some(RtsmTx_new(coder_ranges(o_i)))
    /\ o_signal = None
    /\ o_value = None

\* the sink of WorkerBuilder::main for one instance: coder.send(signal), and
\* the value it emits is set in the shared data
CoderSend(signal) ==
    /\ o_tx # None
    /\ \E e \in {encode(Unwrap(o_tx), coder_ranges(o_i), signal)} :
           /\ o_tx' = Some(e.tx)
           /\ o_value' = Some(e.value)
    /\ o_signal' = Some(signal)
    /\ UNCHANGED o_i
    /\ UNCHANGED notCoder

CoderNext == \E signal \in {OFF, ON} : CoderSend(signal)

SpecCoder == CoderInit /\ [][CoderNext]_vars

\* ---- C39 -------------------------------------------------------------------

\* C39: every integer written for an instance lies in 10..50 when the
\* worker encoded OFF and in 60..100 when it encoded ON, and the consumer's
\* ranges classify it as that signal.
C39_Classified ==
    (o_value # None) =>
        /\ Unwrap(o_signal) = OFF => (Unwrap(o_value) >= 10 /\ Unwrap(o_value) < 50)
        /\ Unwrap(o_signal) = ON => (Unwrap(o_value) >= 60 /\ Unwrap(o_value) < 100)
        /\ signal_for_value(consumer_ranges, Unwrap(o_value)) = o_signal

\* C39: instance 7 has sent ON often enough for its cursor to reach 99, the
\* last value of the consumer's ON range.
C39_Witness ==
    /\ o_i = 7
    /\ o_signal = Some(ON)
    /\ o_value = Some(99)
    /\ signal_for_value(consumer_ranges, 99) = Some(ON)

\* ---- C40 -------------------------------------------------------------------

\* the last accepted value of channel i before the vector of event e was read
LastAccepted(e, i) == IF i <= Len(e.before) THEN e.before[i] ELSE None

Failed(e) == e.out[1] \in {"err", "partial"}

\* C40: when RtsmMultiRx.recv returns an error for a vector (a DecodeError
\* in some channel, or the partial-silence error), every channel's last
\* accepted value is what it was before that vector was read.
C40_ErrorKeepsLast ==
    (IsSome(last_mv) /\ Failed(Unwrap(last_mv))) =>
        LET e == Unwrap(last_mv)
        IN  \A i \in 1..Len(e.after) : e.after[i] = LastAccepted(e, i)

\* C40: two channels that had both accepted 0 read the vector (10, 0): the
\* call returned the partial-silence error, and channel 1 now holds 10, so
\* its ON bit is gone (a later 10 in that channel is a re-read).
C40_PartialChangedLast ==
    /\ IsSome(last_mv)
    /\ LET e == Unwrap(last_mv)
       IN  /\ e.before = <<Some(0), Some(0)>>
           /\ e.vec = <<10, 0>>
           /\ e.out = <<"partial">>
           /\ e.after = <<Some(10), Some(0)>>
           /\ decode(e.after[1], ranges, 10).out[1] = "silent"
    /\ multi_rtsm = Unwrap(last_mv).after
    /\ multi_out = Some(<<"partial">>)

\* Two channels that had both accepted 0 read the vector (10, 99): the call
\* returned the DecodeError of channel 2, channel 1 holds 10 and channel 2
\* holds nothing.
C40_DecodeErrorChangedLast ==
    /\ IsSome(last_mv)
    /\ LET e == Unwrap(last_mv)
       IN  /\ e.before = <<Some(0), Some(0)>>
           /\ e.vec = <<10, 99>>
           /\ e.out[1] = "err"
           /\ e.after = <<Some(10), None>>
    /\ multi_rtsm = Unwrap(last_mv).after

=============================================================================
